---- MODULE Spec2Model ----
(***************************************************************************)
(* A model of the TidyTask REST backend: the credential store, the task    *)
(* store, the bearer-token service, the authorization middleware, the      *)
(* password-reset flow and the route handlers, one action per middleware   *)
(* or handler step (a handler is split where it awaits the store between a *)
(* read and a later write).                                                *)
(***************************************************************************)
EXTENDS Integers, Sequences, FiniteSets, TLC

VARIABLES
  users,       \* credential store: user id -> user document
  tasks,       \* task store: task id -> task document
  now,         \* wall clock, milliseconds (Date.now())
  nextUserId,  \* next fresh ObjectId of the users collection
  nextTaskId,  \* next fresh ObjectId of the tasks collection
  nextRaw,     \* next fresh output of crypto.randomBytes(32)
  reqs,        \* request slot -> request (its position in the chain, locals, response)
  issued,      \* history: raw reset token -> whom and when it was issued to, and its use
  files,       \* the avatar files on disk
  deleted,     \* history: the users whose deleteAccount was answered 200
  proc         \* the server process: its position in startup, its environment, its exit code

vars == <<users, tasks, now, nextUserId, nextTaskId, nextRaw, reqs, issued, files, deleted, proc>>

-----------------------------------------------------------------------------
(* Bounds of the model *)

MaxUsers == 2
MaxTasks == 2
MaxRaw == 2
MaxReqs == 2

(* Program constants *)

ResetWindowMs == 3600000
TokenLifetimeS == 86400
MinPasswordLen == 6
MinAge == 13
MaxAge == 120

TaskIds == 1..MaxTasks
RawTokens == 1..MaxRaw
ReqIds == 1..MaxReqs

-----------------------------------------------------------------------------
(* Values *)

Undefined == [undefined |-> TRUE]

SecretKey == "jwt-secret"
OtherKey == "attacker-secret"

Emails == {"a@x.com", "b@x.com"}
MixedCaseEmails == {"A@x.com", "B@x.com"}
Passwords == {"secret1", "secret2"}

\* yup string().email(): the well-formed addresses of the universe of strings used
IsEmail(s) == s \in Emails \cup MixedCaseEmails

\* the comparison not awaited: a pending promise is truthy
BcryptCompareUnawaited(pw, h) == TRUE

\* bcrypt.hash(password, 10) and bcrypt.compare(password, hash)
BcryptHash(pw) == [alg |-> "bcrypt", of |-> pw]
BcryptCompare(pw, h) == h = BcryptHash(pw)

\* crypto.createHash("sha256").update(token).digest("hex")
Sha256(raw) == [alg |-> "sha256", of |-> raw]

\* record helpers: a document's field may be absent
Has(doc, f) == f \in DOMAIN doc
Without(doc, fs) == [k \in DOMAIN doc \ fs |-> doc[k]]

Resp(status, body) == [status |-> status, body |-> body]

-----------------------------------------------------------------------------
(* Token service: jsonwebtoken sign / verify *)

\* a token signed with a lifetime of zero seconds
JwtSignNoLifetime(userId, email, key, nowMs) ==
  [kind |-> "jwt", userId |-> userId, email |-> email,
   iat |-> nowMs \div 1000, exp |-> nowMs \div 1000, key |-> key]

\* jwt.sign({ userId, email }, key, { expiresIn: "24h" })
JwtSign(userId, email, key, nowMs) ==
  [kind |-> "jwt", userId |-> userId, email |-> email,
   iat |-> nowMs \div 1000, exp |-> (nowMs \div 1000) + TokenLifetimeS, key |-> key]

JwtVerifyOk(token, key, nowMs) ==
  /\ token.kind = "jwt"
  /\ token.key = key
  /\ (nowMs \div 1000) < token.exp

JwtDecoded(token) ==
  [userId |-> token.userId, email |-> token.email, iat |-> token.iat, exp |-> token.exp]

GarbageToken == [kind |-> "garbage"]
EmptySegment == [kind |-> "empty"]

\* req.headers.authorization?.split(' ')[1]
HeaderToken(headers) ==
  IF ~Has(headers, "authorization") THEN Undefined
  ELSE IF Len(headers.authorization) < 2 THEN Undefined
  ELSE headers.authorization[2]

\* !token
Falsy(token) == token = Undefined \/ token = EmptySegment

-----------------------------------------------------------------------------
(* Validation layer: the yup schemas, each as the set of messages of the    *)
(* tests the body fails (empty: the body passes).                           *)

\* yup string().required(msg): absent, null or "" fails
MissingStr(body, f) == ~Has(body, f) \/ body[f] = ""

RequiredErr(body, f, msg) == IF MissingStr(body, f) THEN {msg} ELSE {}

EmailErr(body, fmtMsg, reqMsg) ==
  IF MissingStr(body, "email") THEN {reqMsg}
  ELSE IF ~IsEmail(body.email) THEN {fmtMsg} ELSE {}

PasswordErr(body, f, minMsg, reqMsg) ==
  IF MissingStr(body, f) THEN {reqMsg}
  ELSE IF Len(body[f]) < MinPasswordLen THEN {minMsg} ELSE {}

signupSchema(body) ==
  RequiredErr(body, "firstName", "First name is required")
  \cup RequiredErr(body, "lastName", "Last name is required")
  \cup (IF Has(body, "age") /\ body.age < 0 THEN {"Age must be a positive number"} ELSE {})
  \cup EmailErr(body, "Invalid email format", "Email is required")
  \cup PasswordErr(body, "password", "Password must be at least 6 characters", "Password is required")

loginSchema(body) ==
  EmailErr(body, "Invalid email format", "Email is required")
  \cup PasswordErr(body, "password", "Password must be at least 6 characters", "Password is required")

resetPasswordSchema(body) ==
  EmailErr(body, "Invalid email format", "Email is required")

newPasswordSchema(body) ==
  PasswordErr(body, "password", "Password must be at least 6 characters", "Password is required")
  \cup (IF ~Has(body, "token") THEN {"Reset token is required"} ELSE {})

\* String.prototype.trim on the names used
Trim(s) == IF s = " Ann " THEN "Ann" ELSE s

\* String.prototype.toLowerCase on the addresses used
ToLowerCase(s) ==
  CASE s = "A@x.com" -> "a@x.com"
    [] s = "B@x.com" -> "b@x.com"
    [] OTHER -> s

updateProfileSchema(body) ==
  (IF MissingStr(body, "firstName") \/ Trim(body.firstName) = ""
     THEN {"El nombre es requerido"} ELSE {})
  \cup (IF MissingStr(body, "lastName") \/ Trim(body.lastName) = ""
          THEN {"El apellido es requerido"} ELSE {})
  \cup (IF ~Has(body, "age") THEN {"La edad es requerida"}
        ELSE IF body.age < MinAge THEN {"Debes tener al menos 13 anos"}
        ELSE IF body.age > MaxAge THEN {"Edad no valida"} ELSE {})
  \cup EmailErr(body, "Formato de correo invalido", "El correo es requerido")

changePasswordSchema(body) ==
  RequiredErr(body, "currentPassword", "La contrasena actual es requerida")
  \cup PasswordErr(body, "newPassword",
         "La nueva contrasena debe tener al menos 6 caracteres",
         "La nueva contrasena es requerida")
  \cup (IF MissingStr(body, "confirmPassword") THEN {"Confirma la nueva contrasena"}
        ELSE IF ~Has(body, "newPassword") \/ body.confirmPassword # body.newPassword
          THEN {"Las contrasenas no coinciden"} ELSE {})

-----------------------------------------------------------------------------
(* Credential store queries *)

\* User.findOne({ email })
FindByEmail(email) == {u \in DOMAIN users : users[u].email = email}

\* the expiry compared with $gte
FindByResetTokenInclusive(hash, nowMs) ==
  {u \in DOMAIN users :
     /\ Has(users[u], "resetPasswordToken")
     /\ users[u].resetPasswordToken = hash
     /\ Has(users[u], "resetPasswordExpires")
     /\ users[u].resetPasswordExpires >= nowMs}

\* the expiry left out of the filter: { resetPasswordToken: hash }
FindByResetHashOnly(hash, nowMs) ==
  {u \in DOMAIN users :
     /\ Has(users[u], "resetPasswordToken")
     /\ users[u].resetPasswordToken = hash}

\* the token left out of the filter: any user with an unexpired reset pending
FindByResetExpiryOnly(hash, nowMs) ==
  {u \in DOMAIN users :
     /\ Has(users[u], "resetPasswordToken")
     /\ Has(users[u], "resetPasswordExpires")
     /\ users[u].resetPasswordExpires > nowMs}

\* User.findOne({ resetPasswordToken: hash, resetPasswordExpires: { $gt: Date.now() } })
FindByResetToken(hash, nowMs) ==
  {u \in DOMAIN users :
     /\ Has(users[u], "resetPasswordToken")
     /\ users[u].resetPasswordToken = hash
     /\ Has(users[u], "resetPasswordExpires")
     /\ users[u].resetPasswordExpires > nowMs}

\* findOne returns the first match in natural (insertion) order
First(S) == CHOOSE u \in S : \A v \in S : u <= v

-----------------------------------------------------------------------------
(* Requests and middleware chains *)

Idle == [pc |-> "idle"]

\* the chains with requireAuth left out of the account-deletion route
ChainUnguarded(route) ==
  CASE route \in {"signup", "login"} -> <<"validateRequest", "handler">>
    [] route \in {"recoverPassword", "resetPassword", "deleteAccount"} -> <<"handler">>
    [] route \in {"updateProfile", "changePassword"} ->
         <<"requireAuth", "validateRequest", "handler">>
    [] route = "uploadAvatar" -> <<"requireAuth", "upload", "handler">>
    [] route = "googleCallback" -> <<"passport", "handler">>
    [] OTHER -> <<"requireAuth", "handler">>

\* the exported middleware chain of each route
Chain(route) ==
  CASE route = "signup" -> <<"validateRequest", "handler">>
    [] route = "login" -> <<"validateRequest", "handler">>
    [] route = "logout" -> <<"requireAuth", "handler">>
    [] route = "recoverPassword" -> <<"handler">>
    [] route = "resetPassword" -> <<"handler">>
    [] route \in {"createTask", "getTasks", "getTaskById", "updateTask", "deleteTask"} ->
         <<"requireAuth", "handler">>
    [] route \in {"getProfile", "deleteAccount"} -> <<"requireAuth", "handler">>
    [] route \in {"updateProfile", "changePassword"} ->
         <<"requireAuth", "validateRequest", "handler">>
    [] route = "uploadAvatar" -> <<"requireAuth", "upload", "handler">>
    [] route = "googleCallback" -> <<"passport", "handler">>

\* the schema validateRequest is given in the route's chain
ChainSchema(route, body) ==
  CASE route = "signup" -> signupSchema(body)
    [] route = "login" -> loginSchema(body)
    [] route = "updateProfile" -> updateProfileSchema(body)
    [] route = "changePassword" -> changePasswordSchema(body)

NewReq(route, headers, body, params) ==
  [route |-> route, headers |-> headers, body |-> body, params |-> params,
   sent |-> now, pc |-> Chain(route)[1], at |-> 1, user |-> Undefined,
   file |-> Undefined, loc |-> Undefined, res |-> Undefined, ran |-> <<>>,
   faulted |-> FALSE]

InFlight(r) == reqs[r].pc \notin {"idle", "done"}

\* the request moves to the next element of its chain
Proceed(q, stage) ==
  [q EXCEPT !.pc = Chain(q.route)[q.at + 1], !.at = q.at + 1, !.ran = Append(q.ran, stage)]

\* res.status(s).json(body): the request is answered
Respond(q, stage, status, body) ==
  [q EXCEPT !.pc = "done", !.res = Resp(status, body), !.ran = Append(q.ran, stage)]

Store == <<users, tasks, nextUserId, nextTaskId, files>>
Clock == <<now>>
Ghost == <<issued, deleted>>

\* verifyToken (requireAuth delegates to it)
verifyToken(r) ==
  /\ reqs[r].pc = "requireAuth"
  /\ LET q == reqs[r]
         token == HeaderToken(q.headers)
     IN reqs' = [reqs EXCEPT ![r] =
          IF Falsy(token) THEN Respond(q, "requireAuth", 401, [message |-> "No token provided"])
          ELSE IF ~JwtVerifyOk(token, SecretKey, now)
            THEN Respond(q, "requireAuth", 401, [message |-> "Invalid token"])
          ELSE Proceed([q EXCEPT !.user = JwtDecoded(token)], "requireAuth")]
  /\ UNCHANGED <<Store, Clock, proc, Ghost, nextRaw>>

\* validateRequest(schema)
validateRequest(r) ==
  /\ reqs[r].pc = "validateRequest"
  /\ LET q == reqs[r]
         errs == ChainSchema(q.route, q.body)
     IN IF errs = {}
          THEN reqs' = [reqs EXCEPT ![r] = Proceed(q, "validateRequest")]
          ELSE \E msg \in errs :
                 reqs' = [reqs EXCEPT ![r] = Respond(q, "validateRequest", 400, [message |-> msg])]
  /\ UNCHANGED <<Store, Clock, proc, Ghost, nextRaw>>

-----------------------------------------------------------------------------
(* AuthController *)

\* error.message of a store or transport fault
FaultMessage == "MongoNetworkError: connection lost"

\* a store operation may throw (connection lost, timeout)
StoreFaults == BOOLEAN

Faulted(q, f) == [q EXCEPT !.faulted = f]

\* the handler goes on to its next store operation
Await(q, loc) ==
  [q EXCEPT !.pc = "handler2", !.loc = loc, !.ran = Append(q.ran, "handler")]

\* a response sent after the handler's first await
Reply(q, status, body) == [q EXCEPT !.pc = "done", !.res = Resp(status, body)]

\* the document new User({...}) builds from the signup body
NewUserDoc(body) ==
  [k \in {"firstName", "lastName", "email"} \cup ({"age"} \cap DOMAIN body) |-> body[k]]
  @@ [password |-> BcryptHash(body.password)]

\* Mongoose document validation before insert: the required paths of userSchema
UserDocErrors(doc) ==
  {f \in {"firstName", "lastName", "email", "password", "age"} : ~Has(doc, f)}

\* the unique index on email
UniqueEmailViolated(email, self) ==
  \E u \in DOMAIN users \ self : users[u].email = email

UserView(id, doc) == [id |-> id, email |-> doc.email, age |-> doc.age]

\* signup, up to User.findOne({ email })
SignupFind(r) ==
  /\ reqs[r].pc = "handler"
  /\ reqs[r].route = "signup"
  /\ LET q == reqs[r]
         errs == signupSchema(q.body)
     IN IF errs # {}
          THEN \E msg \in errs :
                 reqs' = [reqs EXCEPT ![r] = Respond(q, "handler", 400, [message |-> msg])]
          ELSE \E f \in StoreFaults :
                 reqs' = [reqs EXCEPT ![r] =
                   IF f
                     THEN Respond(Faulted(q, f), "handler", 500,
                            [message |-> "Internal server error during registration"])
                   ELSE IF FindByEmail(q.body.email) # {}
                     THEN Respond(q, "handler", 409, [message |-> "This email is already registered."])
                   ELSE Await(q, Undefined)]
  /\ UNCHANGED <<Store, Clock, proc, Ghost, nextRaw>>

\* signup, from bcrypt.hash and newUser.save() to the response
SignupSave(r) ==
  /\ reqs[r].pc = "handler2"
  /\ reqs[r].route = "signup"
  /\ LET q == reqs[r]
         doc == NewUserDoc(q.body)
         id == nextUserId
         token == JwtSign(id, doc.email, SecretKey, now)
     IN IF UserDocErrors(doc) # {}
          THEN /\ reqs' = [reqs EXCEPT ![r] = Reply(q, 400,
                    [message |-> "User validation failed: age: Path age is required."])]
               /\ UNCHANGED <<users, nextUserId>>
          ELSE \E f \in StoreFaults :
                 IF f \/ UniqueEmailViolated(doc.email, {})
                   THEN /\ reqs' = [reqs EXCEPT ![r] = Reply(Faulted(q, f), 500,
                             [message |-> "Internal server error during registration"])]
                        /\ UNCHANGED <<users, nextUserId>>
                   ELSE /\ users' = (id :> doc) @@ users
                        /\ nextUserId' = nextUserId + 1
                        /\ reqs' = [reqs EXCEPT ![r] = Reply(q, 201,
                             [message |-> "User created successfully", userId |-> id,
                              token |-> token, user |-> UserView(id, doc)])]
  /\ UNCHANGED <<tasks, nextTaskId, files, Clock, proc, Ghost, nextRaw>>

\* a more helpful answer to a login with an unregistered email
UnknownEmailTold == [message |-> "No account with this email."]

\* the bodies of login's two refusals
UnknownEmail == [message |-> "Invalid email or password."]
WrongPassword == [message |-> "Invalid email or password."]

\* login
Login(r) ==
  /\ reqs[r].pc = "handler"
  /\ reqs[r].route = "login"
  /\ LET q == reqs[r]
         found == FindByEmail(q.body.email)
         id == First(found)
         token == JwtSign(id, users[id].email, SecretKey, now)
     IN IF loginSchema(q.body) # {}
          THEN reqs' = [reqs EXCEPT ![r] =
                  Respond(q, "handler", 500, [message |-> "Error during login process"])]
          ELSE \E f \in StoreFaults :
                 reqs' = [reqs EXCEPT ![r] =
                   IF f
                     THEN Respond(Faulted(q, f), "handler", 500,
                            [message |-> "Error during login process"])
                   ELSE IF found = {}
                     THEN Respond(q, "handler", 401, UnknownEmail)
                   ELSE IF ~BcryptCompare(q.body.password, users[id].password)
                     THEN Respond(q, "handler", 401, WrongPassword)
                   ELSE Respond(q, "handler", 200,
                          [message |-> "Login successful", token |-> token,
                           user |-> UserView(id, users[id])])]
  /\ UNCHANGED <<Store, Clock, proc, Ghost, nextRaw>>

\* logout: req.logout and req.session.destroy report through callbacks
LogoutOutcomes ==
  {Resp(200, [message |-> "Logout successful"]),
   Resp(500, [message |-> "Error during logout"]),
   Resp(500, [message |-> "Error destroying session"]),
   Resp(500, [message |-> "Error during logout process"])}

Logout(r) ==
  /\ reqs[r].pc = "handler"
  /\ reqs[r].route = "logout"
  /\ \E out \in LogoutOutcomes :
       reqs' = [reqs EXCEPT ![r] = Respond(reqs[r], "handler", out.status, out.body)]
  /\ UNCHANGED <<Store, Clock, proc, Ghost, nextRaw>>

\* a string stored as it is, no hash applied to it
Plain(s) == [alg |-> "plain", of |-> s]

\* Math.random().toString(36).slice(-8)
RandomSuffixes == {"k3x9q1zd", "p0m2w8rt"}

\* the profile Google returns for the account that signs in: profile.id,
\* profile.emails[0].value, profile.name.givenName, profile.name.familyName
GoogleProfiles ==
  {[id |-> "g-1", email |-> "a@x.com", givenName |-> "Ann", familyName |-> "Lee"],
   [id |-> "g-2", email |-> "A@x.com", givenName |-> "Anna", familyName |-> "Lee"]}

\* the document User.create({...}) is given by the strategy's verify callback
GoogleUserDoc(profile, suffix) ==
  [email |-> profile.email, firstName |-> profile.givenName,
   lastName |-> profile.familyName,
   password |-> Plain("google-auth-" \o suffix),
   age |-> 0, googleId |-> profile.id]

\* the error-handling middleware of app.js
SomethingWentWrong == [message |-> "Something went wrong!"]

\* passport.authenticate("google") on the callback route, up to the verify
\* callback's User.findOne({ email }): a failed exchange with Google redirects
\* to failureRedirect; a user found is handed to req.logIn, which may fail to
\* establish the session
GoogleVerifyFind(r) ==
  /\ reqs[r].pc = "passport"
  /\ LET q == reqs[r]
     IN IF ~Has(q.body, "profile")
          THEN reqs' = [reqs EXCEPT ![r] = Respond(q, "passport", 302, [location |-> "/login"])]
          ELSE \E f \in StoreFaults, session \in BOOLEAN :
                 LET found == FindByEmail(q.body.profile.email)
                     id == First(found)
                 IN reqs' = [reqs EXCEPT ![r] =
                      IF f THEN Respond(Faulted(q, f), "passport", 500, SomethingWentWrong)
                      ELSE IF found = {} THEN [q EXCEPT !.pc = "passport2"]
                      ELSE IF ~session THEN Respond(q, "passport", 500, SomethingWentWrong)
                      ELSE Proceed([q EXCEPT !.user = [id |-> id] @@ users[id]], "passport")]
  /\ UNCHANGED <<Store, Clock, proc, Ghost, nextRaw>>

\* the verify callback from User.create({...}) to done(null, user), and req.logIn
GoogleVerifyCreate(r) ==
  /\ reqs[r].pc = "passport2"
  /\ LET q == reqs[r]
         id == nextUserId
     IN \E f \in StoreFaults, suffix \in RandomSuffixes, session \in BOOLEAN :
          LET doc == GoogleUserDoc(q.body.profile, suffix)
          IN IF f \/ UniqueEmailViolated(doc.email, {})
               THEN /\ reqs' = [reqs EXCEPT ![r] =
                         Respond(Faulted(q, f), "passport", 500, SomethingWentWrong)]
                    /\ UNCHANGED <<users, nextUserId>>
               ELSE /\ users' = (id :> doc) @@ users
                    /\ nextUserId' = nextUserId + 1
                    /\ reqs' = [reqs EXCEPT ![r] =
                         IF ~session THEN Respond(q, "passport", 500, SomethingWentWrong)
                         ELSE Proceed([q EXCEPT !.user = [id |-> id] @@ doc], "passport")]
  /\ UNCHANGED <<tasks, nextTaskId, files, Clock, proc, Ghost, nextRaw>>

\* googleCallback: the token signed for req.user, sent in the redirect URL
googleCallback(r) ==
  /\ reqs[r].pc = "handler"
  /\ reqs[r].route = "googleCallback"
  /\ LET q == reqs[r]
         token == JwtSign(q.user.id, q.user.email, SecretKey, now)
     IN reqs' = [reqs EXCEPT ![r] = Respond(q, "handler", 302,
          [location |-> "/google-callback.html", success |-> TRUE,
           message |-> "Login successful", token |-> token,
           user |-> [id |-> q.user.id, firstName |-> q.user.firstName,
                     lastName |-> q.user.lastName, email |-> q.user.email,
                     age |-> q.user.age]])]
  /\ UNCHANGED <<Store, Clock, proc, Ghost, nextRaw>>

GenericMessage ==
  [success |-> TRUE,
   message |-> "Si existe una cuenta con este email, recibiras un correo con las instrucciones."]

RecoverErrorPrefix == "Error en el proceso de recuperacion de contrasena: "

\* what EmailService.sendPasswordResetEmail can do: resolve true, resolve false, reject
MailOutcomes == {"sent", "failed", "threw"}

\* user.save() of a loaded document updates the document with that _id, and
\* throws when the store fails or the document is gone
SaveFails(q, f) == f \/ q.loc.id \notin DOMAIN users

\* telling the caller that the email has no account
NoAccountTold == Resp(404, [success |-> FALSE, message |-> "Usuario no encontrado"])

\* the answer when no user has the email
NoAccount == Resp(200, GenericMessage)

\* recoverPassword, up to User.findOne({ email })
RecoverFind(r) ==
  /\ reqs[r].pc = "handler"
  /\ reqs[r].route = "recoverPassword"
  /\ LET q == reqs[r]
         errs == resetPasswordSchema(q.body)
         found == FindByEmail(q.body.email)
     IN IF errs # {}
          THEN \E msg \in errs :
                 reqs' = [reqs EXCEPT ![r] = Respond(q, "handler", 500,
                    [success |-> FALSE, message |-> RecoverErrorPrefix \o msg])]
          ELSE \E f \in StoreFaults :
                 reqs' = [reqs EXCEPT ![r] =
                   IF f
                     THEN Respond(Faulted(q, f), "handler", 500,
                            [success |-> FALSE, message |-> RecoverErrorPrefix \o FaultMessage])
                   ELSE IF found = {}
                     THEN Respond(q, "handler", NoAccount.status, NoAccount.body)
                   ELSE Await(q, [id |-> First(found)])]
  /\ UNCHANGED <<Store, Clock, proc, Ghost, nextRaw>>

\* recoverPassword, from the token generation and user.save() to the response
RecoverSave(r) ==
  /\ reqs[r].pc = "handler2"
  /\ reqs[r].route = "recoverPassword"
  /\ LET q == reqs[r]
         id == q.loc.id
         resetToken == nextRaw
         hash == Sha256(resetToken)
     IN \E f \in StoreFaults :
          IF SaveFails(q, f)
            THEN /\ reqs' = [reqs EXCEPT ![r] = Reply(Faulted(q, f), 500,
                      [success |-> FALSE, message |-> RecoverErrorPrefix \o FaultMessage])]
                 /\ UNCHANGED <<users, nextRaw, issued>>
            ELSE /\ users' = [users EXCEPT ![id] =
                      [resetPasswordToken |-> hash,
                       resetPasswordExpires |-> now + ResetWindowMs] @@ @]
                 /\ nextRaw' = nextRaw + 1
                 /\ issued' = (resetToken :> [user |-> id, at |-> now, used |-> FALSE, newPw |-> ""]) @@ issued
                 /\ \E mail \in MailOutcomes :
                      reqs' = [reqs EXCEPT ![r] =
                         Reply([q EXCEPT !.loc = [id |-> id, mail |-> mail]], 200, GenericMessage)]
  /\ UNCHANGED <<tasks, nextUserId, nextTaskId, files, Clock, proc, deleted>>

\* the reset token cleared and its expiry left on the record
ResetDocKeepsExpiry(doc, pw) ==
  [password |-> BcryptHash(pw)] @@ Without(doc, {"resetPasswordToken"})

\* the new password stored with the reset fields left in place
ResetDocKeepsToken(doc, pw) == [password |-> BcryptHash(pw)] @@ doc

\* user.password = hash; the reset token and expiry set to undefined
ResetDoc(doc, pw) ==
  [password |-> BcryptHash(pw)] @@ Without(doc, {"resetPasswordToken", "resetPasswordExpires"})

\* resetPassword, up to User.findOne({ resetPasswordToken, resetPasswordExpires })
ResetFind(r) ==
  /\ reqs[r].pc = "handler"
  /\ reqs[r].route = "resetPassword"
  /\ LET q == reqs[r]
         found == FindByResetToken(Sha256(q.body.token), now)
     IN IF newPasswordSchema(q.body) # {}
          THEN reqs' = [reqs EXCEPT ![r] = Respond(q, "handler", 500,
                  [success |-> FALSE, message |-> "Error al restablecer la contrasena"])]
          ELSE \E f \in StoreFaults :
                 reqs' = [reqs EXCEPT ![r] =
                   IF f
                     THEN Respond(Faulted(q, f), "handler", 500,
                            [success |-> FALSE, message |-> "Error al restablecer la contrasena"])
                   ELSE IF found = {}
                     THEN Respond(q, "handler", 400,
                            [success |-> FALSE, message |-> "Token invalido o expirado"])
                   ELSE Await(q, [id |-> First(found)])]
  /\ UNCHANGED <<Store, Clock, proc, Ghost, nextRaw>>

\* resetPassword, from bcrypt.hash and user.save() to the response
ResetSave(r) ==
  /\ reqs[r].pc = "handler2"
  /\ reqs[r].route = "resetPassword"
  /\ LET q == reqs[r]
         id == q.loc.id
         raw == q.body.token
         doc == ResetDoc(users[id], q.body.password)
         newToken == JwtSign(id, doc.email, SecretKey, now)
     IN \E f \in StoreFaults :
          IF SaveFails(q, f)
            THEN /\ reqs' = [reqs EXCEPT ![r] = Reply(Faulted(q, f), 500,
                      [success |-> FALSE, message |-> "Error al restablecer la contrasena"])]
                 /\ UNCHANGED <<users, issued>>
            ELSE /\ users' = [users EXCEPT ![id] = doc]
                 /\ issued' = IF raw \in DOMAIN issued
                                THEN [issued EXCEPT ![raw].used = TRUE,
                                                    ![raw].newPw = q.body.password]
                                ELSE issued
                 /\ reqs' = [reqs EXCEPT ![r] = Reply(q, 200,
                      [success |-> TRUE, message |-> "Contrasena actualizada exitosamente",
                       token |-> newToken, user |-> UserView(id, doc)])]
  /\ UNCHANGED <<tasks, nextUserId, nextTaskId, files, Clock, proc, nextRaw, deleted>>

-----------------------------------------------------------------------------
(* TaskController *)

Null == [null |-> TRUE]

Statuses == {"Por hacer", "Haciendo", "Hecho"}
Dates == {"2025-06-01"}
TaskPaths == {"title", "detail", "date", "time", "status", "user"}

\* an id that does not cast to an ObjectId
MalformedId == 0

Digits == {"0", "1", "2", "3", "4", "5", "6", "7", "8", "9"}

\* /^([01]?[0-9]|2[0-3]):[0-5][0-9]$/ on a string given as its characters
TimeRegex(s) ==
  \/ /\ Len(s) = 5
     /\ \/ s[1] \in {"0", "1"} /\ s[2] \in Digits
        \/ s[1] = "2" /\ s[2] \in {"0", "1", "2", "3"}
     /\ s[3] = ":"
     /\ s[4] \in {"0", "1", "2", "3", "4", "5"}
     /\ s[5] \in Digits
  \/ /\ Len(s) = 4
     /\ s[1] \in Digits
     /\ s[2] = ":"
     /\ s[3] \in {"0", "1", "2", "3", "4", "5"}
     /\ s[4] \in Digits

\* the valid-time-format test: an absent, null or empty value passes
TimeFormatOk(body) == ~Has(body, "time") \/ body.time = <<>> \/ TimeRegex(body.time)

TimeErrs(body) ==
  IF TimeFormatOk(body) THEN <<>> ELSE <<"Time must be in HH:MM format (24-hour)">>

StatusErrs(body) ==
  IF Has(body, "status") /\ body.status \notin Statuses
    THEN <<"status must be one of the following values: Por hacer, Haciendo, Hecho">>
    ELSE <<>>

\* the messages of the failed tests, in schema order (abortEarly: false)
createTaskSchema(body) ==
  (IF MissingStr(body, "title") THEN <<"Title is required">> ELSE <<>>)
  \o (IF ~Has(body, "date") \/ body.date \notin Dates THEN <<"Date is required">> ELSE <<>>)
  \o TimeErrs(body)
  \o (IF Has(body, "time") /\ body.time # <<>> /\ ~Has(body, "date")
        THEN <<"Time requires a valid date">> ELSE <<>>)
  \o StatusErrs(body)

updateTaskSchema(body) ==
  (IF Has(body, "date") /\ body.date \notin Dates
     THEN <<"date must be a date type">> ELSE <<>>)
  \o TimeErrs(body)
  \o StatusErrs(body)

RECURSIVE JoinComma(_)
JoinComma(msgs) ==
  IF Len(msgs) = 0 THEN ""
  ELSE IF Len(msgs) = 1 THEN msgs[1]
  ELSE msgs[1] \o ", " \o JoinComma(Tail(msgs))

ValidationFailed(msgs) ==
  [message |-> "Validation failed: " \o JoinComma(msgs), errors |-> msgs]

\* the document built from the whole body: new Task({ user: userId, ...req.body })
NewTaskDocFromBody(body, userId) ==
  [k \in {"title", "date"} \cup ({"detail"} \cap DOMAIN body) |-> body[k]]
  @@ [time |-> IF Has(body, "time") THEN body.time ELSE <<>>,
      status |-> IF Has(body, "status") THEN body.status ELSE "Por hacer",
      user |-> IF Has(body, "user") THEN body.user ELSE userId]

\* new Task({ title, detail, date, time: time || null, status: status || 'Por hacer', user })
NewTaskDoc(body, userId) ==
  [k \in {"title", "date"} \cup ({"detail"} \cap DOMAIN body) |-> body[k]]
  @@ [time |-> IF Has(body, "time") THEN body.time ELSE <<>>,
      status |-> IF Has(body, "status") THEN body.status ELSE "Por hacer",
      user |-> userId]

\* .populate('user', 'firstName lastName email')
PopulateUser(u) ==
  IF u \in DOMAIN users
    THEN [id |-> u, firstName |-> users[u].firstName,
          lastName |-> users[u].lastName, email |-> users[u].email]
    ELSE Null

Populated(store, id) == [id |-> id] @@ [store[id] EXCEPT !.user = PopulateUser(@)]

\* the filter with the owner left out: { _id: taskId }
OwnedTaskAnyUser(taskId, userId) == taskId \in DOMAIN tasks

\* the filter { _id: taskId, user: userId }
OwnedTask(taskId, userId) == taskId \in DOMAIN tasks /\ tasks[taskId].user = userId

\* Task.find({ user: userId })
TasksOf(userId) == {t \in DOMAIN tasks : tasks[t].user = userId}

\* the update document applied to the paths of taskSchema
ApplyUpdate(doc, body) ==
  [k \in DOMAIN doc \cup (DOMAIN body \cap TaskPaths) |->
     IF k \in DOMAIN body THEN body[k] ELSE doc[k]]

\* createTask, up to newTask.save()
CreateTaskSave(r) ==
  /\ reqs[r].pc = "handler"
  /\ reqs[r].route = "createTask"
  /\ LET q == reqs[r]
         errs == createTaskSchema(q.body)
         id == nextTaskId
     IN IF errs # <<>>
          THEN /\ reqs' = [reqs EXCEPT ![r] = Respond(q, "handler", 400, ValidationFailed(errs))]
               /\ UNCHANGED <<tasks, nextTaskId>>
          ELSE \E f \in StoreFaults :
                 IF f
                   THEN /\ reqs' = [reqs EXCEPT ![r] = Respond(Faulted(q, f), "handler", 500,
                             [message |-> "Internal server error creating task"])]
                        /\ UNCHANGED <<tasks, nextTaskId>>
                   ELSE /\ tasks' = (id :> NewTaskDoc(q.body, q.user.userId)) @@ tasks
                        /\ nextTaskId' = nextTaskId + 1
                        /\ reqs' = [reqs EXCEPT ![r] = Await(q, [id |-> id])]
  /\ UNCHANGED <<users, nextUserId, files, Clock, proc, Ghost, nextRaw>>

\* createTask, from Task.findById(savedTask._id).populate(...) to the response
CreateTaskRead(r) ==
  /\ reqs[r].pc = "handler2"
  /\ reqs[r].route = "createTask"
  /\ LET q == reqs[r]
         id == q.loc.id
     IN \E f \in StoreFaults :
          reqs' = [reqs EXCEPT ![r] =
            IF f
              THEN Reply(Faulted(q, f), 500, [message |-> "Internal server error creating task"])
              ELSE Reply(q, 201,
                     [message |-> "Task created successfully",
                      task |-> IF id \in DOMAIN tasks THEN Populated(tasks, id) ELSE Null])]
  /\ UNCHANGED <<Store, Clock, proc, Ghost, nextRaw>>

getTasks(r) ==
  /\ reqs[r].pc = "handler"
  /\ reqs[r].route = "getTasks"
  /\ LET q == reqs[r]
     IN \E f \in StoreFaults :
          reqs' = [reqs EXCEPT ![r] =
            IF f
              THEN Respond(Faulted(q, f), "handler", 500,
                     [message |-> "Internal server error retrieving tasks"])
              ELSE Respond(q, "handler", 200,
                     [message |-> "Tasks retrieved successfully",
                      tasks |-> {Populated(tasks, t) : t \in TasksOf(q.user.userId)}])]
  /\ UNCHANGED <<Store, Clock, proc, Ghost, nextRaw>>

getTaskById(r) ==
  /\ reqs[r].pc = "handler"
  /\ reqs[r].route = "getTaskById"
  /\ LET q == reqs[r]
         taskId == q.params.id
     IN \E f \in StoreFaults :
          reqs' = [reqs EXCEPT ![r] =
            IF f \/ taskId = MalformedId
              THEN Respond(Faulted(q, f), "handler", 500,
                     [message |-> "Internal server error retrieving task"])
            ELSE IF ~OwnedTask(taskId, q.user.userId)
              THEN Respond(q, "handler", 404, [message |-> "Task not found"])
            ELSE Respond(q, "handler", 200,
                   [message |-> "Task retrieved successfully", task |-> Populated(tasks, taskId)])]
  /\ UNCHANGED <<Store, Clock, proc, Ghost, nextRaw>>

CastErrorMessage == "Cast to ObjectId failed for value at path _id for model Task"

updateTask(r) ==
  /\ reqs[r].pc = "handler"
  /\ reqs[r].route = "updateTask"
  /\ LET q == reqs[r]
         taskId == q.params.id
         errs == updateTaskSchema(q.body)
         updated == (taskId :> ApplyUpdate(tasks[taskId], q.body)) @@ tasks
     IN IF errs # <<>>
          THEN /\ reqs' = [reqs EXCEPT ![r] = Respond(q, "handler", 400, ValidationFailed(errs))]
               /\ UNCHANGED tasks
          ELSE IF taskId = MalformedId
            THEN /\ reqs' = [reqs EXCEPT ![r] =
                      Respond(q, "handler", 400, [message |-> CastErrorMessage])]
                 /\ UNCHANGED tasks
          ELSE \E f \in StoreFaults :
                 IF f
                   THEN /\ reqs' = [reqs EXCEPT ![r] = Respond(Faulted(q, f), "handler", 500,
                             [message |-> "Internal server error updating task"])]
                        /\ UNCHANGED tasks
                 ELSE IF ~OwnedTask(taskId, q.user.userId)
                   THEN /\ reqs' = [reqs EXCEPT ![r] =
                             Respond(q, "handler", 404, [message |-> "Task not found"])]
                        /\ UNCHANGED tasks
                 ELSE /\ tasks' = updated
                      /\ reqs' = [reqs EXCEPT ![r] = Respond(q, "handler", 200,
                           [message |-> "Task updated successfully",
                            task |-> Populated(updated, taskId)])]
  /\ UNCHANGED <<users, nextUserId, nextTaskId, files, Clock, proc, Ghost, nextRaw>>

deleteTask(r) ==
  /\ reqs[r].pc = "handler"
  /\ reqs[r].route = "deleteTask"
  /\ LET q == reqs[r]
         taskId == q.params.id
     IN \E f \in StoreFaults :
          IF f \/ taskId = MalformedId
            THEN /\ reqs' = [reqs EXCEPT ![r] = Respond(Faulted(q, f), "handler", 500,
                      [message |-> "Internal server error deleting task"])]
                 /\ UNCHANGED tasks
          ELSE IF ~OwnedTask(taskId, q.user.userId)
            THEN /\ reqs' = [reqs EXCEPT ![r] =
                      Respond(q, "handler", 404, [message |-> "Task not found"])]
                 /\ UNCHANGED tasks
          ELSE /\ tasks' = Without(tasks, {taskId})
               /\ reqs' = [reqs EXCEPT ![r] =
                    Respond(q, "handler", 200, [message |-> "Task deleted successfully"])]
  /\ UNCHANGED <<users, nextUserId, nextTaskId, files, Clock, proc, Ghost, nextRaw>>

-----------------------------------------------------------------------------
(* UserProfileController *)

AllowedMimes == {"image/jpeg", "image/jpg", "image/png", "image/gif", "image/webp"}

\* the name multer's storage gives the uploaded file
FileName(userId, nowMs) == [user |-> userId, at |-> nowMs]

ServerError == [success |-> FALSE, message |-> "Error interno del servidor"]
UserNotFound == [success |-> FALSE, message |-> "Usuario no encontrado"]

ProfileView(id, doc) ==
  [id |-> id, firstName |-> doc.firstName, lastName |-> doc.lastName, age |-> doc.age,
   email |-> doc.email, avatar |-> IF Has(doc, "avatar") THEN doc.avatar ELSE Undefined]

getProfile(r) ==
  /\ reqs[r].pc = "handler"
  /\ reqs[r].route = "getProfile"
  /\ LET q == reqs[r]
         userId == q.user.userId
     IN \E f \in StoreFaults :
          reqs' = [reqs EXCEPT ![r] =
            IF f THEN Respond(Faulted(q, f), "handler", 500, ServerError)
            ELSE IF userId \notin DOMAIN users THEN Respond(q, "handler", 404, UserNotFound)
            ELSE Respond(q, "handler", 200,
                   [success |-> TRUE, data |-> ProfileView(userId, users[userId])])]
  /\ UNCHANGED <<Store, Clock, proc, Ghost, nextRaw>>

\* updateProfile, up to User.findOne({ email, _id: { $ne: userId } })
UpdateProfileFind(r) ==
  /\ reqs[r].pc = "handler"
  /\ reqs[r].route = "updateProfile"
  /\ LET q == reqs[r]
         userId == q.user.userId
         errs == updateProfileSchema(q.body)
     IN IF errs # {}
          THEN \E msg \in errs :
                 reqs' = [reqs EXCEPT ![r] =
                   Respond(q, "handler", 400, [success |-> FALSE, message |-> msg])]
          ELSE \E f \in StoreFaults :
                 reqs' = [reqs EXCEPT ![r] =
                   IF f THEN Respond(Faulted(q, f), "handler", 500, ServerError)
                   ELSE IF FindByEmail(q.body.email) \ {userId} # {}
                     THEN Respond(q, "handler", 409,
                            [success |-> FALSE,
                             message |-> "Este correo electronico ya esta registrado"])
                   ELSE Await(q, Undefined)]
  /\ UNCHANGED <<Store, Clock, proc, Ghost, nextRaw>>

\* updateProfile, from User.findByIdAndUpdate(...) to the response
UpdateProfileSave(r) ==
  /\ reqs[r].pc = "handler2"
  /\ reqs[r].route = "updateProfile"
  /\ LET q == reqs[r]
         userId == q.user.userId
         email == ToLowerCase(q.body.email)
         doc == [firstName |-> Trim(q.body.firstName), lastName |-> Trim(q.body.lastName),
                 age |-> q.body.age, email |-> email] @@ users[userId]
     IN \E f \in StoreFaults :
          IF f \/ (userId \in DOMAIN users /\ UniqueEmailViolated(email, {userId}))
            THEN /\ reqs' = [reqs EXCEPT ![r] = Reply(Faulted(q, f), 500, ServerError)]
                 /\ UNCHANGED users
          ELSE IF userId \notin DOMAIN users
            THEN /\ reqs' = [reqs EXCEPT ![r] = Reply(q, 404, UserNotFound)]
                 /\ UNCHANGED users
          ELSE /\ users' = [users EXCEPT ![userId] = doc]
               /\ reqs' = [reqs EXCEPT ![r] = Reply(q, 200,
                    [success |-> TRUE, message |-> "Perfil actualizado exitosamente",
                     data |-> ProfileView(userId, doc)])]
  /\ UNCHANGED <<tasks, nextUserId, nextTaskId, files, Clock, proc, Ghost, nextRaw>>

\* changePassword, up to User.findById and bcrypt.compare
ChangePasswordFind(r) ==
  /\ reqs[r].pc = "handler"
  /\ reqs[r].route = "changePassword"
  /\ LET q == reqs[r]
         userId == q.user.userId
         errs == changePasswordSchema(q.body)
     IN IF errs # {}
          THEN \E msg \in errs :
                 reqs' = [reqs EXCEPT ![r] =
                   Respond(q, "handler", 400, [success |-> FALSE, message |-> msg])]
          ELSE \E f \in StoreFaults :
                 reqs' = [reqs EXCEPT ![r] =
                   IF f THEN Respond(Faulted(q, f), "handler", 500, ServerError)
                   ELSE IF userId \notin DOMAIN users
                     THEN Respond(q, "handler", 404, UserNotFound)
                   ELSE IF ~BcryptCompare(q.body.currentPassword, users[userId].password)
                     THEN Respond(q, "handler", 400,
                            [success |-> FALSE, message |-> "La contrasena actual es incorrecta"])
                   ELSE Await(q, Undefined)]
  /\ UNCHANGED <<Store, Clock, proc, Ghost, nextRaw>>

\* the password change that also discards a pending reset
ChangePasswordSaveClearsReset(r) ==
  /\ reqs[r].pc = "handler2"
  /\ reqs[r].route = "changePassword"
  /\ LET q == reqs[r]
         userId == q.user.userId
     IN \E f \in StoreFaults :
          IF f
            THEN /\ reqs' = [reqs EXCEPT ![r] = Reply(Faulted(q, f), 500, ServerError)]
                 /\ UNCHANGED users
            ELSE /\ users' = IF userId \in DOMAIN users
                               THEN [users EXCEPT ![userId] =
                                       ResetDoc(users[userId], q.body.newPassword)]
                               ELSE users
                 /\ reqs' = [reqs EXCEPT ![r] = Reply(q, 200,
                      [success |-> TRUE, message |-> "Contrasena actualizada exitosamente"])]
  /\ UNCHANGED <<tasks, nextUserId, nextTaskId, files, Clock, proc, Ghost, nextRaw>>

\* changePassword, from bcrypt.hash and User.findByIdAndUpdate to the response
ChangePasswordSave(r) ==
  /\ reqs[r].pc = "handler2"
  /\ reqs[r].route = "changePassword"
  /\ LET q == reqs[r]
         userId == q.user.userId
     IN \E f \in StoreFaults :
          IF f
            THEN /\ reqs' = [reqs EXCEPT ![r] = Reply(Faulted(q, f), 500, ServerError)]
                 /\ UNCHANGED users
            ELSE /\ users' = IF userId \in DOMAIN users
                               THEN [users EXCEPT ![userId].password =
                                       BcryptHash(q.body.newPassword)]
                               ELSE users
                 /\ reqs' = [reqs EXCEPT ![r] = Reply(q, 200,
                      [success |-> TRUE, message |-> "Contrasena actualizada exitosamente"])]
  /\ UNCHANGED <<tasks, nextUserId, nextTaskId, files, Clock, proc, Ghost, nextRaw>>

\* the account looked up with findById and reported deleted, the record left in place
deleteAccountKeepsRecord(r) ==
  /\ reqs[r].pc = "handler"
  /\ reqs[r].route = "deleteAccount"
  /\ LET q == reqs[r]
         userId == q.user.userId
     IN \E f \in StoreFaults :
          IF f
            THEN /\ reqs' = [reqs EXCEPT ![r] =
                      Respond(Faulted(q, f), "handler", 500, ServerError)]
                 /\ UNCHANGED deleted
          ELSE IF userId \notin DOMAIN users
            THEN /\ reqs' = [reqs EXCEPT ![r] = Respond(q, "handler", 404, UserNotFound)]
                 /\ UNCHANGED deleted
          ELSE /\ deleted' = deleted \cup {userId}
               /\ reqs' = [reqs EXCEPT ![r] = Respond(q, "handler", 200,
                    [success |-> TRUE, message |-> "Cuenta eliminada exitosamente"])]
  /\ UNCHANGED <<users, tasks, nextUserId, nextTaskId, files, Clock, proc, issued, nextRaw>>

\* the account deleted together with the tasks it owns
deleteAccountCascade(r) ==
  /\ reqs[r].pc = "handler"
  /\ reqs[r].route = "deleteAccount"
  /\ LET q == reqs[r]
         userId == q.user.userId
     IN \E f \in StoreFaults :
          IF f
            THEN /\ reqs' = [reqs EXCEPT ![r] =
                      Respond(Faulted(q, f), "handler", 500, ServerError)]
                 /\ UNCHANGED <<users, tasks, deleted>>
          ELSE IF userId \notin DOMAIN users
            THEN /\ reqs' = [reqs EXCEPT ![r] = Respond(q, "handler", 404, UserNotFound)]
                 /\ UNCHANGED <<users, tasks, deleted>>
          ELSE /\ users' = Without(users, {userId})
               /\ tasks' = Without(tasks, TasksOf(userId))
               /\ deleted' = deleted \cup {userId}
               /\ reqs' = [reqs EXCEPT ![r] = Respond(q, "handler", 200,
                    [success |-> TRUE, message |-> "Cuenta eliminada exitosamente"])]
  /\ UNCHANGED <<nextUserId, nextTaskId, files, Clock, proc, issued, nextRaw>>

\* deleteAccount: User.findByIdAndDelete(userId)
deleteAccount(r) ==
  /\ reqs[r].pc = "handler"
  /\ reqs[r].route = "deleteAccount"
  /\ LET q == reqs[r]
         userId == q.user.userId
     IN \E f \in StoreFaults :
          IF f
            THEN /\ reqs' = [reqs EXCEPT ![r] =
                      Respond(Faulted(q, f), "handler", 500, ServerError)]
                 /\ UNCHANGED <<users, deleted>>
          ELSE IF userId \notin DOMAIN users
            THEN /\ reqs' = [reqs EXCEPT ![r] = Respond(q, "handler", 404, UserNotFound)]
                 /\ UNCHANGED <<users, deleted>>
          ELSE /\ users' = Without(users, {userId})
               /\ deleted' = deleted \cup {userId}
               /\ reqs' = [reqs EXCEPT ![r] = Respond(q, "handler", 200,
                    [success |-> TRUE, message |-> "Cuenta eliminada exitosamente"])]
  /\ UNCHANGED <<tasks, nextUserId, nextTaskId, files, Clock, proc, issued, nextRaw>>

\* upload.single("avatar"): multer's fileFilter and disk storage
upload(r) ==
  /\ reqs[r].pc = "upload"
  /\ LET q == reqs[r]
         name == FileName(q.user.userId, now)
     IN IF ~Has(q.body, "file")
          THEN /\ reqs' = [reqs EXCEPT ![r] = Proceed(q, "upload")]
               /\ UNCHANGED files
        ELSE IF q.body.file \notin AllowedMimes
          THEN /\ reqs' = [reqs EXCEPT ![r] =
                    Respond(q, "upload", 500, [message |-> "Something went wrong!"])]
               /\ UNCHANGED files
        ELSE /\ files' = files \cup {name}
             /\ reqs' = [reqs EXCEPT ![r] = Proceed([q EXCEPT !.file = name], "upload")]
  /\ UNCHANGED <<users, tasks, nextUserId, nextTaskId, Clock, proc, Ghost, nextRaw>>

\* uploadAvatar, up to User.findById and the removal of the old avatar file
UploadAvatarFind(r) ==
  /\ reqs[r].pc = "handler"
  /\ reqs[r].route = "uploadAvatar"
  /\ LET q == reqs[r]
         userId == q.user.userId
     IN IF q.file = Undefined
          THEN /\ reqs' = [reqs EXCEPT ![r] = Respond(q, "handler", 400,
                    [success |-> FALSE, message |-> "No se ha seleccionado ningun archivo"])]
               /\ UNCHANGED files
          ELSE \E f \in StoreFaults :
                 IF f
                   THEN /\ reqs' = [reqs EXCEPT ![r] =
                             Respond(Faulted(q, f), "handler", 500, ServerError)]
                        /\ files' = files \ {q.file}
                 ELSE IF userId \notin DOMAIN users
                   THEN /\ reqs' = [reqs EXCEPT ![r] = Respond(q, "handler", 404, UserNotFound)]
                        /\ UNCHANGED files
                 ELSE /\ files' = IF Has(users[userId], "avatar")
                                    THEN files \ {users[userId].avatar} ELSE files
                      /\ reqs' = [reqs EXCEPT ![r] = Await(q, Undefined)]
  /\ UNCHANGED <<users, tasks, nextUserId, nextTaskId, Clock, proc, Ghost, nextRaw>>

\* uploadAvatar, from User.findByIdAndUpdate(userId, { avatar }) to the response
UploadAvatarSave(r) ==
  /\ reqs[r].pc = "handler2"
  /\ reqs[r].route = "uploadAvatar"
  /\ LET q == reqs[r]
         userId == q.user.userId
     IN \E f \in StoreFaults :
          IF f \/ userId \notin DOMAIN users
            THEN /\ reqs' = [reqs EXCEPT ![r] = Reply(Faulted(q, f), 500, ServerError)]
                 /\ files' = files \ {q.file}
                 /\ UNCHANGED users
            ELSE /\ users' = [users EXCEPT ![userId] = [avatar |-> q.file] @@ @]
                 /\ UNCHANGED files
                 /\ reqs' = [reqs EXCEPT ![r] = Reply(q, 200,
                      [success |-> TRUE, message |-> "Avatar actualizado exitosamente",
                       data |-> [avatar |-> q.file]])]
  /\ UNCHANGED <<tasks, nextUserId, nextTaskId, Clock, proc, Ghost, nextRaw>>

-----------------------------------------------------------------------------
(* Startup: app.js, config/database.js, index.js *)

\* process.env after dotenv.config(): which of the two variables are set
Environments == [JWT_SECRET : BOOLEAN, MONGODB_URI : BOOLEAN]

\* the process as node starts to evaluate app.js, its imports done
Booting(env) == [pc |-> "connectDB", env |-> env, db |-> "none", code |-> 0]

\* the process once it listens, configured and connected
Serving ==
  [pc |-> "serving", env |-> [JWT_SECRET |-> TRUE, MONGODB_URI |-> TRUE],
   db |-> "connected", code |-> 0]

\* process.exit(code)
Exit(p, code) == [p EXCEPT !.pc = "exited", !.code = code]

Rest == <<Store, Clock, Ghost, nextRaw, reqs>>

\* connectDB(), up to its await: without a connection string it throws, and
\* its catch exits; with one, mongoose.connect is under way
connectDB ==
  /\ proc.pc = "connectDB"
  /\ proc' = IF ~proc.env.MONGODB_URI
               THEN Exit(proc, 1)
               ELSE [proc EXCEPT !.pc = "checkEnv", !.db = "connecting"]
  /\ UNCHANGED Rest

\* mongoose.connect settles once the event loop runs: it resolves, or it
\* rejects and connectDB's catch exits
connectSettles ==
  /\ proc.pc = "serving"
  /\ proc.db = "connecting"
  /\ \E ok \in BOOLEAN :
       proc' = IF ok THEN [proc EXCEPT !.db = "connected"] ELSE Exit(proc, 1)
  /\ UNCHANGED Rest

\* the missing secret reported on the console only
checkEnvLogsOnly ==
  /\ proc.pc = "checkEnv"
  /\ proc' = [proc EXCEPT !.pc = "listen"]
  /\ UNCHANGED Rest

\* if (!process.env.JWT_SECRET) process.exit(1), then the app is built
checkEnv ==
  /\ proc.pc = "checkEnv"
  /\ proc' = IF ~proc.env.JWT_SECRET THEN Exit(proc, 1) ELSE [proc EXCEPT !.pc = "listen"]
  /\ UNCHANGED Rest

\* server.listen(PORT)
listen ==
  /\ proc.pc = "listen"
  /\ proc' = [proc EXCEPT !.pc = "serving"]
  /\ UNCHANGED Rest

-----------------------------------------------------------------------------
(* The environment: the clock and the clients *)

\* the instants at which requests arrive: around the end of the reset window
Instants == {0, ResetWindowMs - 1, ResetWindowMs}

Quiet == \A r \in ReqIds : ~InFlight(r)

\* time passes between requests, to a later one of the instants given
TickIn(S) ==
  /\ Quiet
  /\ \E t \in S : t > now /\ now' = t
  /\ UNCHANGED <<Store, Ghost, nextRaw, reqs, proc>>

Tick == TickIn(Instants)

\* instants around the expiry of a bearer token signed at 0
GateInstants == {0, TokenLifetimeS * 1000 - 1, TokenLifetimeS * 1000}

GateTick == TickIn(GateInstants)

PlainHeaders == [host |-> "tidytask"]
NoParams == [none |-> TRUE]
EmptyBody == [other |-> "x"]

BadEmail == "not-an-email"
ShortPassword == "short"

AnnBody ==
  [firstName |-> "Ann", lastName |-> "Lee", email |-> "a@x.com", password |-> "secret1", age |-> 25]
BobBody ==
  [firstName |-> "Bob", lastName |-> "Roe", email |-> "b@x.com", password |-> "secret2", age |-> 30]

SignupBodies ==
  {AnnBody, BobBody}
  \cup {[firstName |-> "Ann", lastName |-> "Lee", email |-> "a@x.com", password |-> "secret1"],
        [lastName |-> "Lee", email |-> "a@x.com", password |-> "secret1", age |-> 25],
        [firstName |-> "Ann", lastName |-> "Lee", email |-> BadEmail, password |-> "secret1", age |-> 25],
        [firstName |-> "Ann", lastName |-> "Lee", email |-> "a@x.com", password |-> ShortPassword, age |-> 25],
        [firstName |-> "Ann", lastName |-> "Lee", email |-> "a@x.com", password |-> "secret1", age |-> -1]}

LoginBodies ==
  {[email |-> e, password |-> p] : e \in Emails, p \in Passwords}
  \cup {[email |-> BadEmail, password |-> "secret1"],
        [email |-> "a@x.com", password |-> ShortPassword]}

RecoverBodies ==
  {[email |-> e] : e \in Emails} \cup {[email |-> BadEmail], EmptyBody}

ResetBodies ==
  {[token |-> t, password |-> p] : t \in RawTokens, p \in Passwords}
  \cup {[token |-> 1, password |-> ShortPassword], [password |-> "secret1"]}

\* the server is listening and the slot is free
CanStart(r) == proc.pc = "serving" /\ reqs[r].pc \in {"idle", "done"}

Others == <<Store, Clock, Ghost, nextRaw, proc>>

\* requests in flight that may still insert a user
PendingSignups == Cardinality({r \in ReqIds : InFlight(r) /\ reqs[r].route = "signup"})

\* requests in flight that may still draw a reset token
PendingRecovers == Cardinality({r \in ReqIds : InFlight(r) /\ reqs[r].route = "recoverPassword"})

StartSignup(r) ==
  /\ CanStart(r)
  /\ nextUserId + PendingSignups <= MaxUsers
  /\ \E body \in SignupBodies :
       reqs' = [reqs EXCEPT ![r] = NewReq("signup", PlainHeaders, body, NoParams)]
  /\ UNCHANGED Others

StartLogin(r) ==
  /\ CanStart(r)
  /\ \E body \in LoginBodies :
       reqs' = [reqs EXCEPT ![r] = NewReq("login", PlainHeaders, body, NoParams)]
  /\ UNCHANGED Others

StartRecover(r) ==
  /\ CanStart(r)
  /\ nextRaw + PendingRecovers <= MaxRaw
  /\ \E body \in RecoverBodies :
       reqs' = [reqs EXCEPT ![r] = NewReq("recoverPassword", PlainHeaders, body, NoParams)]
  /\ UNCHANGED Others

StartReset(r) ==
  /\ CanStart(r)
  /\ \E body \in ResetBodies :
       reqs' = [reqs EXCEPT ![r] = NewReq("resetPassword", PlainHeaders, body, NoParams)]
  /\ UNCHANGED Others

\* a request arrives: any of the headers, bodies and route parameters given
Start(r, route, Hs, Bs, Ps) ==
  /\ CanStart(r)
  /\ route = "createTask" => nextTaskId <= MaxTasks
  /\ \E h \in Hs, b \in Bs, p \in Ps :
       reqs' = [reqs EXCEPT ![r] = NewReq(route, h, b, p)]
  /\ UNCHANGED Others

Bearer(token) == [authorization |-> <<"Bearer", token>>]

\* the header carrying the token the last response on slot r returned, if any
Returned(r) ==
  IF reqs[r].pc = "done" /\ Has(reqs[r].res.body, "token")
    THEN {Bearer(reqs[r].res.body.token)} ELSE {}

\* the client presents the token it has just been given
StartLogout(r) ==
  Start(r, "logout", Returned(1) \cup {PlainHeaders}, {EmptyBody}, {NoParams})

\* two accounts registered at instant 0, and the tokens their signups returned
Registered == <<NewUserDoc(AnnBody), NewUserDoc(BobBody)>>

SessionToken(u) == JwtSign(u, Registered[u].email, SecretKey, 0)

SessionHeaders == {Bearer(SessionToken(u)) : u \in DOMAIN Registered}

\* what a client without a session can send
StrangerHeaders ==
  {PlainHeaders,
   [authorization |-> <<"Bearer">>],
   Bearer(EmptySegment),
   Bearer(GarbageToken),
   Bearer(JwtSign(1, "a@x.com", OtherKey, 0))}

TaskRoutes == {"createTask", "getTasks", "getTaskById", "updateTask", "deleteTask"}
UserRoutes == {"getProfile", "updateProfile", "changePassword", "deleteAccount", "uploadAvatar"}
ProtectedRoutes == TaskRoutes \cup UserRoutes \cup {"logout"}

Time1430 == <<"1", "4", ":", "3", "0">>
Time2500 == <<"2", "5", ":", "0", "0">>

CreateTaskBodies ==
  {[title |-> "Buy milk", date |-> "2025-06-01"],
   [title |-> "Call Bob", date |-> "2025-06-01", time |-> Time1430, status |-> "Haciendo",
    user |-> 2],
   [title |-> "Buy milk", date |-> "2025-06-01", time |-> Time2500],
   [date |-> "2025-06-01"]}

UpdateTaskBodies ==
  {[status |-> "Hecho"], [status |-> "Later"], [user |-> 2]}

TaskParams == {[id |-> t] : t \in TaskIds \cup {MalformedId}}

TaskInputs(route) ==
  CASE route = "createTask" -> [bodies |-> CreateTaskBodies, params |-> {NoParams}]
    [] route = "updateTask" -> [bodies |-> UpdateTaskBodies, params |-> TaskParams]
    [] route = "getTasks" -> [bodies |-> {EmptyBody}, params |-> {NoParams}]
    [] OTHER -> [bodies |-> {EmptyBody}, params |-> TaskParams]

\* one request of each protected route
GateInputs(route) ==
  CASE route = "createTask" ->
         [bodies |-> {[title |-> "Buy milk", date |-> "2025-06-01"]}, params |-> {NoParams}]
    [] route = "updateTask" -> [bodies |-> {[status |-> "Hecho"]}, params |-> {[id |-> 1]}]
    [] route \in {"getTaskById", "deleteTask"} ->
         [bodies |-> {EmptyBody}, params |-> {[id |-> 1]}]
    [] route = "updateProfile" ->
         [bodies |-> {[firstName |-> " Ann ", lastName |-> "Lee", age |-> 40, email |-> "A@x.com"],
                      [firstName |-> "Ann", lastName |-> "Lee", age |-> 12, email |-> "a@x.com"]},
          params |-> {NoParams}]
    [] route = "changePassword" ->
         [bodies |-> {[currentPassword |-> "secret1", newPassword |-> "secret2",
                       confirmPassword |-> "secret2"],
                      [currentPassword |-> "secret1", newPassword |-> "secret2",
                       confirmPassword |-> "secret1"]},
          params |-> {NoParams}]
    [] route = "uploadAvatar" ->
         [bodies |-> {[file |-> "image/png"], [file |-> "text/plain"], EmptyBody},
          params |-> {NoParams}]
    [] OTHER -> [bodies |-> {EmptyBody}, params |-> {NoParams}]

StartTaskRequest(r) ==
  \E route \in TaskRoutes :
    Start(r, route, SessionHeaders, TaskInputs(route).bodies, TaskInputs(route).params)

StartProtected(r) ==
  \E route \in ProtectedRoutes :
    Start(r, route, {Bearer(SessionToken(1))} \cup StrangerHeaders,
          GateInputs(route).bodies, GateInputs(route).params)

-----------------------------------------------------------------------------
(* Specifications *)

Init ==
  /\ users = <<>>
  /\ tasks = <<>>
  /\ now = 0
  /\ nextUserId = 1
  /\ nextTaskId = 1
  /\ nextRaw = 1
  /\ reqs = [r \in ReqIds |-> Idle]
  /\ issued = <<>>
  /\ files = {}
  /\ deleted = {}
  /\ proc = Serving

Step ==
  \E r \in ReqIds :
    \/ validateRequest(r)
    \/ SignupFind(r)
    \/ SignupSave(r)
    \/ Login(r)
    \/ RecoverFind(r)
    \/ RecoverSave(r)
    \/ ResetFind(r)
    \/ ResetSave(r)

\* one request at a time
SeqStart ==
  /\ Quiet
  /\ \/ StartSignup(1)
     \/ StartLogin(1)
     \/ StartRecover(1)
     \/ StartReset(1)

Next == SeqStart \/ Step \/ Tick

\* the authentication routes, one request at a time, from an empty store
Spec == Init /\ [][Next]_vars

\* signup and login, each followed by a request that presents the returned token
SessionStep ==
  \E r \in ReqIds :
    \/ verifyToken(r)
    \/ validateRequest(r)
    \/ SignupFind(r)
    \/ SignupSave(r)
    \/ Login(r)
    \/ Logout(r)

SessionStart ==
  /\ Quiet
  /\ \/ StartSignup(1)
     \/ StartLogin(1)
     \/ StartLogout(2)

SessionNext == SessionStart \/ SessionStep \/ GateTick

SessionSpec == Init /\ [][SessionNext]_vars

\* signups that overlap
RaceStep ==
  \E r \in ReqIds :
    \/ StartSignup(r)
    \/ validateRequest(r)
    \/ SignupFind(r)
    \/ SignupSave(r)

RaceSpec == Init /\ [][RaceStep]_vars

\* the store once Ann and Bob have registered
InitRegistered ==
  /\ users = Registered
  /\ tasks = <<>>
  /\ now = 0
  /\ nextUserId = Len(Registered) + 1
  /\ nextTaskId = 1
  /\ nextRaw = 1
  /\ reqs = [r \in ReqIds |-> Idle]
  /\ issued = <<>>
  /\ files = {}
  /\ deleted = {}
  /\ proc = Serving

\* the task routes, called by Ann and Bob with their tokens
TaskStep ==
  \E r \in ReqIds :
    \/ verifyToken(r)
    \/ CreateTaskSave(r)
    \/ CreateTaskRead(r)
    \/ getTasks(r)
    \/ getTaskById(r)
    \/ updateTask(r)
    \/ deleteTask(r)

TaskNext == (Quiet /\ StartTaskRequest(1)) \/ TaskStep

TaskSpec == InitRegistered /\ [][TaskNext]_vars

\* every protected route, called by Ann with her token and by clients without one
GateStep ==
  \E r \in ReqIds :
    \/ verifyToken(r)
    \/ validateRequest(r)
    \/ upload(r)
    \/ CreateTaskSave(r)
    \/ CreateTaskRead(r)
    \/ getTasks(r)
    \/ getTaskById(r)
    \/ updateTask(r)
    \/ deleteTask(r)
    \/ getProfile(r)
    \/ UpdateProfileFind(r)
    \/ UpdateProfileSave(r)
    \/ ChangePasswordFind(r)
    \/ ChangePasswordSave(r)
    \/ deleteAccount(r)
    \/ UploadAvatarFind(r)
    \/ UploadAvatarSave(r)
    \/ Logout(r)

GateNext == (Quiet /\ StartProtected(1)) \/ GateStep \/ GateTick

GateSpec == InitRegistered /\ [][GateNext]_vars

AccountRoutes == UserRoutes \cup {"login"}

ProfileBody(email, age) ==
  [firstName |-> " Ann ", lastName |-> "Lee", age |-> age, email |-> email]

UpdateProfileBodies ==
  {ProfileBody(e, 40) : e \in {"a@x.com", "b@x.com", "B@x.com"}}
  \cup {ProfileBody("a@x.com", 12)}

ChangePasswordBodies ==
  {[currentPassword |-> c, newPassword |-> n, confirmPassword |-> n] :
     c \in Passwords, n \in Passwords}
  \cup {[currentPassword |-> "secret1", newPassword |-> "secret2", confirmPassword |-> "secret1"]}

AvatarBodies == {[file |-> "image/png"], [file |-> "text/plain"], EmptyBody}

AccountInputs(route) ==
  CASE route = "login" ->
         [headers |-> {PlainHeaders},
          bodies |-> {[email |-> e, password |-> p] : e \in Emails, p \in Passwords}]
    [] route = "updateProfile" ->
         [headers |-> {Bearer(SessionToken(1))}, bodies |-> UpdateProfileBodies]
    [] route = "changePassword" ->
         [headers |-> {Bearer(SessionToken(1))}, bodies |-> ChangePasswordBodies]
    [] route = "uploadAvatar" ->
         [headers |-> {Bearer(SessionToken(1))}, bodies |-> AvatarBodies]
    [] OTHER -> [headers |-> {Bearer(SessionToken(1))}, bodies |-> {EmptyBody}]

StartAccount(r) ==
  \E route \in AccountRoutes :
    Start(r, route, AccountInputs(route).headers, AccountInputs(route).bodies, {NoParams})

\* the /users/me routes and login, called by Ann one request at a time
AccountStep ==
  \E r \in ReqIds :
    \/ verifyToken(r)
    \/ validateRequest(r)
    \/ upload(r)
    \/ Login(r)
    \/ getProfile(r)
    \/ UpdateProfileFind(r)
    \/ UpdateProfileSave(r)
    \/ ChangePasswordFind(r)
    \/ ChangePasswordSave(r)
    \/ deleteAccount(r)
    \/ UploadAvatarFind(r)
    \/ UploadAvatarSave(r)

AccountNext == (Quiet /\ StartAccount(1)) \/ AccountStep

AccountSpec == InitRegistered /\ [][AccountNext]_vars

\* the time strings sent: those the documentation names, and strings around
\* each bound of the pattern, with two hour digits and with one
NamedTimes ==
  {<<"1", "4", ":", "3", "0">>, <<"0", "0", ":", "0", "0">>, <<"2", "3", ":", "5", "9">>,
   <<"2", "4", ":", "0", "0">>, <<"9", ":", "5">>, <<"1", "4", ":", "6", "0">>,
   <<"1", "4", ":", "3">>}

TimeStrings ==
  NamedTimes
  \cup {<<a, b, ":", c, "9">> : a \in {"1", "2", "3"}, b \in {"3", "4"}, c \in {"5", "6"}}
  \cup {<<"9", ":", c, "5">> : c \in {"0", "6"}}
  \cup {<<>>}

TimeBodies(route) ==
  IF route = "createTask"
    THEN {[title |-> "Buy milk", date |-> "2025-06-01"]}
         \cup {[title |-> "Buy milk", date |-> "2025-06-01", time |-> t] : t \in TimeStrings}
    ELSE {[time |-> t] : t \in TimeStrings}

StartTimed(r) ==
  \E route \in {"createTask", "updateTask"} :
    Start(r, route, {Bearer(SessionToken(1))}, TimeBodies(route),
          IF route = "createTask" THEN {NoParams} ELSE {[id |-> 1]})

\* createTask and updateTask, called by Ann with each of the time strings
TimeStep ==
  \E r \in ReqIds :
    \/ verifyToken(r)
    \/ CreateTaskSave(r)
    \/ CreateTaskRead(r)
    \/ updateTask(r)

TimeNext == (Quiet /\ StartTimed(1)) \/ TimeStep

TimeSpec == InitRegistered /\ [][TimeNext]_vars

\* the process starts in any environment
InitBoot ==
  /\ users = <<>>
  /\ tasks = <<>>
  /\ now = 0
  /\ nextUserId = 1
  /\ nextTaskId = 1
  /\ nextRaw = 1
  /\ reqs = [r \in ReqIds |-> Idle]
  /\ issued = <<>>
  /\ files = {}
  /\ deleted = {}
  /\ proc \in {Booting(env) : env \in Environments}

Alive == proc.pc = "serving"

\* startup, then signup, login and logout while the process lives
StartupNext ==
  \/ connectDB
  \/ checkEnv
  \/ listen
  \/ connectSettles
  \/ SessionStart
  \/ (Alive /\ SessionStep)

StartupSpec == InitBoot /\ [][StartupNext]_vars

\* instants within one second of the clock and in the next
TokenInstants == {0, 999, 1000}

\* signup on one connection and login on another, one request at a time
TokenStep ==
  \E r \in ReqIds :
    \/ validateRequest(r)
    \/ SignupFind(r)
    \/ SignupSave(r)
    \/ Login(r)

TokenStart ==
  /\ Quiet
  /\ \/ StartSignup(1)
     \/ StartLogin(2)

TokenNext == TokenStart \/ TokenStep \/ TickIn(TokenInstants)

TokenSpec == Init /\ [][TokenNext]_vars

\* one request of each route that writes a user record, for Ann's account
FieldsInputs(route) ==
  CASE route = "signup" -> [headers |-> {PlainHeaders}, bodies |-> {AnnBody}]
    [] route = "recoverPassword" ->
         [headers |-> {PlainHeaders}, bodies |-> {[email |-> AnnBody.email]}]
    [] route = "resetPassword" ->
         [headers |-> {PlainHeaders},
          bodies |-> {[token |-> t, password |-> "secret2"] : t \in RawTokens}]
    [] route = "changePassword" ->
         [headers |-> {Bearer(SessionToken(1))},
          bodies |-> {[currentPassword |-> "secret1", newPassword |-> "secret2",
                       confirmPassword |-> "secret2"]}]
    [] route = "updateProfile" ->
         [headers |-> {Bearer(SessionToken(1))}, bodies |-> {ProfileBody("A@x.com", 40)}]
    [] route = "uploadAvatar" ->
         [headers |-> {Bearer(SessionToken(1))}, bodies |-> {[file |-> "image/png"]}]

FieldsRoutes ==
  {"signup", "recoverPassword", "resetPassword", "changePassword", "updateProfile",
   "uploadAvatar"}

StartFields(r) ==
  \E route \in FieldsRoutes :
    /\ route = "signup" => nextUserId + PendingSignups <= MaxUsers
    /\ route = "recoverPassword" => nextRaw + PendingRecovers <= MaxRaw
    /\ Start(r, route, FieldsInputs(route).headers, FieldsInputs(route).bodies, {NoParams})

\* the routes that write a user record, the requests of two clients overlapping
FieldsStep ==
  \E r \in ReqIds :
    \/ r \in {1, 2} /\ StartFields(r)
    \/ verifyToken(r)
    \/ validateRequest(r)
    \/ upload(r)
    \/ SignupFind(r)
    \/ SignupSave(r)
    \/ RecoverFind(r)
    \/ RecoverSave(r)
    \/ ResetFind(r)
    \/ ResetSave(r)
    \/ UpdateProfileFind(r)
    \/ UpdateProfileSave(r)
    \/ ChangePasswordFind(r)
    \/ ChangePasswordSave(r)
    \/ UploadAvatarFind(r)
    \/ UploadAvatarSave(r)

FieldsSpec == Init /\ [][FieldsStep]_vars

\* the requests that write user records: registrations with addresses that
\* differ in case only, federated logins, and the routes that change a record
IdentityInputs(route) ==
  CASE route = "signup" ->
         {AnnBody, [AnnBody EXCEPT !.email = "A@x.com"], BobBody}
    [] route = "googleCallback" -> {[profile |-> g] : g \in GoogleProfiles} \cup {EmptyBody}
    [] route = "recoverPassword" -> {[email |-> AnnBody.email]}
    [] route = "resetPassword" -> {[token |-> t, password |-> "secret2"] : t \in RawTokens}
    [] route = "updateProfile" -> {ProfileBody(e, 40) : e \in {"a@x.com", "b@x.com", "B@x.com"}}
    [] route = "changePassword" ->
         {[currentPassword |-> "secret1", newPassword |-> "secret2",
           confirmPassword |-> "secret2"]}
    [] route = "deleteAccount" -> {EmptyBody}

\* a client without a token registers, signs in with Google, or recovers and
\* resets a password
StartAnonymous(r) ==
  \E route \in {"signup", "googleCallback", "recoverPassword", "resetPassword"} :
    /\ route \in {"signup", "googleCallback"} => nextUserId <= MaxUsers
    /\ route = "recoverPassword" => nextRaw <= MaxRaw
    /\ Start(r, route, {PlainHeaders}, IdentityInputs(route), {NoParams})

\* a client presents the token the last response on the other connection returned
StartSignedIn(r, from) ==
  \E route \in {"updateProfile", "changePassword", "deleteAccount"} :
    Start(r, route, Returned(from), IdentityInputs(route), {NoParams})

IdentityStep ==
  \E r \in ReqIds :
    \/ verifyToken(r)
    \/ validateRequest(r)
    \/ SignupFind(r)
    \/ SignupSave(r)
    \/ GoogleVerifyFind(r)
    \/ GoogleVerifyCreate(r)
    \/ googleCallback(r)
    \/ RecoverFind(r)
    \/ RecoverSave(r)
    \/ ResetFind(r)
    \/ ResetSave(r)
    \/ UpdateProfileFind(r)
    \/ UpdateProfileSave(r)
    \/ ChangePasswordFind(r)
    \/ ChangePasswordSave(r)
    \/ deleteAccount(r)

IdentityStart ==
  /\ Quiet
  /\ \/ StartAnonymous(1)
     \/ StartSignedIn(2, 1)

IdentityNext == IdentityStart \/ IdentityStep

\* every route that creates, changes or deletes a user record, one request at
\* a time, from an empty store
IdentitySpec == Init /\ [][IdentityNext]_vars

\* recoveries that overlap, then resets one at a time
RecoverRaceStep ==
  \E r \in ReqIds :
    \/ RecoverFind(r)
    \/ RecoverSave(r)
    \/ ResetFind(r)
    \/ ResetSave(r)

\* no resetPassword request is being served
NoResetInFlight == \A r \in ReqIds : InFlight(r) => reqs[r].route # "resetPassword"

RecoverRaceStart ==
  \/ \E r \in {1, 2} :
       /\ NoResetInFlight
       /\ nextRaw + PendingRecovers <= MaxRaw
       /\ Start(r, "recoverPassword", {PlainHeaders}, {[email |-> e] : e \in Emails}, {NoParams})
  \/ /\ Quiet
     /\ Start(1, "resetPassword", {PlainHeaders},
              {[token |-> t, password |-> "secret2"] : t \in RawTokens}, {NoParams})

RecoverRaceNext == RecoverRaceStart \/ RecoverRaceStep \/ Tick

RecoverRaceSpec == InitRegistered /\ [][RecoverRaceNext]_vars

\* a raw token no recoverPassword has issued
UnissuedRaw == MaxRaw + 1

\* recoveries for a registered address, for an address no user has and for a
\* malformed one; resets with issued and unissued tokens; and task creation
ResetFrameInputs(route) ==
  CASE route = "recoverPassword" ->
         [headers |-> {PlainHeaders},
          bodies |-> {[email |-> "a@x.com"], [email |-> "B@x.com"], [email |-> BadEmail]}]
    [] route = "resetPassword" ->
         [headers |-> {PlainHeaders},
          bodies |-> {[token |-> t, password |-> "secret2"] : t \in RawTokens \cup {UnissuedRaw}}
                     \cup {[token |-> 1, password |-> ShortPassword]}]
    [] route = "createTask" ->
         [headers |-> {Bearer(SessionToken(1))},
          bodies |-> {[title |-> "Buy milk", date |-> "2025-06-01"]}]

StartResetFrame(r) ==
  \E route \in {"recoverPassword", "resetPassword", "createTask"} :
    /\ route = "recoverPassword" => nextRaw <= MaxRaw
    /\ Start(r, route, ResetFrameInputs(route).headers, ResetFrameInputs(route).bodies,
             {NoParams})

ResetFrameStep ==
  \E r \in ReqIds :
    \/ verifyToken(r)
    \/ CreateTaskSave(r)
    \/ CreateTaskRead(r)
    \/ RecoverFind(r)
    \/ RecoverSave(r)
    \/ ResetFind(r)
    \/ ResetSave(r)

ResetFrameNext == (Quiet /\ StartResetFrame(1)) \/ ResetFrameStep \/ Tick

\* the reset flow, one request at a time, on a store that holds users and tasks
ResetFrameSpec == InitRegistered /\ [][ResetFrameNext]_vars

StartDeletion(r) ==
  \/ Start(r, "createTask", SessionHeaders, {[title |-> "Buy milk", date |-> "2025-06-01"]},
           {NoParams})
  \/ Start(r, "getTasks", SessionHeaders, {EmptyBody}, {NoParams})
  \/ Start(r, "deleteAccount", SessionHeaders, {EmptyBody}, {NoParams})

DeletionStep ==
  \E r \in ReqIds :
    \/ verifyToken(r)
    \/ CreateTaskSave(r)
    \/ CreateTaskRead(r)
    \/ getTasks(r)
    \/ deleteAccount(r)

DeletionNext == (Quiet /\ StartDeletion(1)) \/ DeletionStep

\* Ann and Bob create tasks and delete their accounts, one request at a time,
\* each with the token of their signup
DeletionSpec == InitRegistered /\ [][DeletionNext]_vars

\* successive milliseconds of the clock
AvatarInstants == {0, 1, 2}

AvatarStep ==
  \E r \in ReqIds :
    \/ verifyToken(r)
    \/ upload(r)
    \/ UploadAvatarFind(r)
    \/ UploadAvatarSave(r)

AvatarStart ==
  /\ Quiet
  /\ Start(1, "uploadAvatar", {Bearer(SessionToken(1))}, AvatarBodies, {NoParams})

AvatarNext == AvatarStart \/ AvatarStep \/ TickIn(AvatarInstants)

\* Ann uploads avatars one after another
AvatarSpec == InitRegistered /\ [][AvatarNext]_vars

\* Ann asks for a reset, changes her password or her profile while signed in,
\* and then presents the reset token
PendingResetInputs(route) ==
  CASE route = "recoverPassword" ->
         [headers |-> {PlainHeaders}, bodies |-> {[email |-> AnnBody.email]}]
    [] route = "resetPassword" ->
         [headers |-> {PlainHeaders},
          bodies |-> {[token |-> t, password |-> "secret1"] : t \in RawTokens}]
    [] route = "changePassword" ->
         [headers |-> {Bearer(SessionToken(1))},
          bodies |-> {[currentPassword |-> "secret1", newPassword |-> "secret2",
                       confirmPassword |-> "secret2"]}]
    [] route = "updateProfile" ->
         [headers |-> {Bearer(SessionToken(1))},
          bodies |-> {ProfileBody("A@x.com", 40), ProfileBody("b@x.com", 40)}]

StartPendingReset(r, routes) ==
  \E route \in routes :
    /\ route = "recoverPassword" => nextRaw <= MaxRaw
    /\ Start(r, route, PendingResetInputs(route).headers, PendingResetInputs(route).bodies,
             {NoParams})

PendingResetStep ==
  \E r \in ReqIds :
    \/ verifyToken(r)
    \/ validateRequest(r)
    \/ RecoverFind(r)
    \/ RecoverSave(r)
    \/ ResetFind(r)
    \/ ResetSave(r)
    \/ UpdateProfileFind(r)
    \/ UpdateProfileSave(r)
    \/ ChangePasswordFind(r)
    \/ ChangePasswordSave(r)

PendingResetStart ==
  /\ Quiet
  /\ \/ StartPendingReset(1, {"recoverPassword", "resetPassword"})
     \/ StartPendingReset(2, {"changePassword", "updateProfile"})

PendingResetNext == PendingResetStart \/ PendingResetStep \/ Tick

PendingResetSpec == InitRegistered /\ [][PendingResetNext]_vars

-----------------------------------------------------------------------------
(* Properties *)

Range(seq) == {seq[i] : i \in DOMAIN seq}

Started(r) == reqs[r].pc # "idle"

Done(r) == reqs[r].pc = "done"

\* the request has left the authorization middleware
PastAuth(q) == q.pc # "requireAuth"

\* the request was answered by the authorization middleware
RejectedByAuth(q) == q.pc = "done" /\ q.ran = <<"requireAuth">>

\* a token the server signed that has not expired at the instant given
Genuine(token, nowMs) ==
  /\ token.kind = "jwt"
  /\ token.key = SecretKey
  /\ nowMs \div 1000 < token.iat + TokenLifetimeS

GateOk ==
  \A r \in ReqIds :
    Started(r) /\ reqs[r].route \in ProtectedRoutes /\ PastAuth(reqs[r]) =>
      LET q == reqs[r]
          token == HeaderToken(q.headers)
      IN /\ Len(q.ran) >= 1 /\ q.ran[1] = "requireAuth"
         /\ IF token \in {Undefined, EmptySegment}
              THEN /\ RejectedByAuth(q)
                   /\ q.res = Resp(401, [message |-> "No token provided"])
            ELSE IF ~Genuine(token, q.sent)
              THEN /\ RejectedByAuth(q)
                   /\ q.res = Resp(401, [message |-> "Invalid token"])
            ELSE /\ ~RejectedByAuth(q)
                 /\ q.user = [userId |-> token.userId, email |-> token.email,
                               iat |-> token.iat, exp |-> token.exp]
         /\ RejectedByAuth(q) => "handler" \notin Range(q.ran) /\ q.user = Undefined

\* a step that changes a record is a step of a request that carries req.user
StoreChangeOk ==
  (users' # users \/ tasks' # tasks \/ files' # files) =>
    \E r \in ReqIds :
      /\ reqs'[r] # reqs[r]
      /\ reqs[r].pc \in {"upload", "handler", "handler2"}
      /\ reqs[r].user # Undefined
      /\ "requireAuth" \in Range(reqs[r].ran)

\* C1: on every protected route (all of /tasks, all of /users/me, POST
\* /auth/logout) the handler runs only after verifyToken has verified the
\* bearer token and set req.user to its claims; a request with no
\* Authorization header or no second segment is answered 401 'No token
\* provided', one whose token fails verification (malformed, wrong key,
\* expired) is answered 401 'Invalid token', and in both cases the handler
\* never runs and no record changes.
C1_ProtectedRoutesGated == [][GateOk' /\ StoreChangeOk]_vars

\* an expired token of Ann's was refused on the account-deletion route
C1_Witness ==
  \E r \in ReqIds :
    /\ Done(r)
    /\ reqs[r].route = "deleteAccount"
    /\ HeaderToken(reqs[r].headers) = SessionToken(1)
    /\ reqs[r].res = Resp(401, [message |-> "Invalid token"])
    /\ 1 \in DOMAIN users

\* the user a request's bearer token names
Caller(q) == HeaderToken(q.headers).userId

ByIdRoutes == {"getTaskById", "updateTask", "deleteTask"}

\* the handler of a by-id task route answers request r in this step
AnswersById(r) ==
  /\ reqs[r].pc = "handler"
  /\ reqs[r].route \in ByIdRoutes
  /\ reqs'[r].pc = "done"

\* the id names a task of another user, or no task at all
NotCallers(q) ==
  /\ q.params.id # MalformedId
  /\ q.params.id \in DOMAIN tasks => tasks[q.params.id].user # Caller(q)

WellFormed(q) == q.route = "updateTask" => updateTaskSchema(q.body) = <<>>

GetTasksOk ==
  \A r \in ReqIds :
    Done(r) /\ reqs[r].route = "getTasks" /\ reqs[r].res.status = 200 =>
      LET listed == reqs[r].res.body.tasks
      IN /\ {t.id : t \in listed} = {t \in DOMAIN tasks : tasks[t].user = Caller(reqs[r])}
         /\ \A t \in listed :
              /\ t.title = tasks[t.id].title
              /\ t.status = tasks[t.id].status
              /\ t.user.id = Caller(reqs[r])

IsolationStep ==
  \A r \in ReqIds :
    AnswersById(r) /\ NotCallers(reqs[r]) =>
      /\ tasks' = tasks
      /\ WellFormed(reqs[r]) /\ ~reqs'[r].faulted =>
           reqs'[r].res = Resp(404, [message |-> "Task not found"])
      /\ ~Has(reqs'[r].res.body, "task")

Answered(r, route) ==
  /\ InFlight(r)
  /\ reqs[r].route = route
  /\ reqs'[r].pc = "done"

\* the store answered every operation of the request
NoFault(q) == ~q.faulted

\* the credentials are those of a stored user
Matches(email, pw) ==
  \E u \in DOMAIN users : users[u].email = email /\ users[u].password = BcryptHash(pw)

PassesLoginSchema(body) ==
  /\ Has(body, "email") /\ body.email \in Emails
  /\ Has(body, "password") /\ Len(body.password) >= MinPasswordLen

LoginStep ==
  \A r \in ReqIds :
    /\ Answered(r, "login") /\ PassesLoginSchema(reqs[r].body) /\ NoFault(reqs'[r])
         /\ ~Matches(reqs[r].body.email, reqs[r].body.password) =>
           reqs'[r].res = Resp(401, [message |-> "Invalid email or password."])
    /\ InFlight(r) /\ reqs[r].route = "login" /\ reqs'[r] # reqs[r] =>
           UNCHANGED <<users, tasks, files, issued>>

\* C3: for every (email, password) pair that passes the login schema, login
\* with an email no user has and login with a stored email but a password
\* that does not match are both answered 401 with the same body, which
\* holds no token, and change no record.
C3_LoginRefusalsAlike == [][LoginStep]_vars

\* a login with a registered email and the wrong password was refused
C3_Witness ==
  \E r \in ReqIds :
    /\ Done(r)
    /\ reqs[r].route = "login"
    /\ reqs[r].res.status = 401
    /\ FindByEmail(reqs[r].body.email) # {}
    /\ ~Matches(reqs[r].body.email, reqs[r].body.password)

RecoverOk ==
  \A r \in ReqIds :
    Done(r) /\ reqs[r].route = "recoverPassword" /\ NoFault(reqs[r])
      /\ Has(reqs[r].body, "email") /\ reqs[r].body.email \in Emails =>
        /\ reqs[r].res =
             Resp(200, [success |-> TRUE,
                        message |-> "Si existe una cuenta con este email, recibiras un correo con las instrucciones."])
        /\ reqs[r].loc # Undefined /\ reqs[r].loc.mail \in {"failed", "threw"} =>
             LET u == users[reqs[r].loc.id]
             IN /\ Has(u, "resetPasswordToken") /\ Has(u, "resetPasswordExpires")
                /\ u.resetPasswordToken = Sha256(nextRaw - 1)
                /\ u.resetPasswordExpires = reqs[r].sent + ResetWindowMs

Superseded(raw) ==
  \E other \in DOMAIN issued : other > raw /\ issued[other].user = issued[raw].user

\* issued, not yet used by a reset, not replaced
Unspent(raw) == raw \in DOMAIN issued /\ ~issued[raw].used /\ ~Superseded(raw)

InWindow(raw) == now < issued[raw].at + ResetWindowMs

PassesNewPasswordSchema(body) ==
  Has(body, "token") /\ Has(body, "password") /\ Len(body.password) >= MinPasswordLen

\* the reset tokens a user has used
UsedBy(u) == {raw \in DOMAIN issued : issued[raw].user = u /\ issued[raw].used}

\* the password the user's last reset chose
LastChosen(u) == issued[CHOOSE raw \in UsedBy(u) : \A other \in UsedBy(u) : other <= raw].newPw

RoundTripStep ==
  \A r \in ReqIds :
    /\ Answered(r, "resetPassword") /\ PassesNewPasswordSchema(reqs[r].body)
         /\ NoFault(reqs'[r]) =>
           LET raw == reqs[r].body.token
               res == reqs'[r].res
           IN /\ Unspent(raw) /\ InWindow(raw) =>
                   LET u == issued[raw].user
                   IN /\ res.status = 200
                      /\ res.body.token =
                           [kind |-> "jwt", userId |-> u, email |-> users[u].email,
                            iat |-> now \div 1000, exp |-> (now \div 1000) + TokenLifetimeS,
                            key |-> SecretKey]
                      /\ users'[u].password = BcryptHash(reqs[r].body.password)
              /\ raw \in DOMAIN issued /\ issued[raw].used =>
                   /\ res = Resp(400, [success |-> FALSE, message |-> "Token invalido o expirado"])
                   /\ UNCHANGED <<users, tasks, files>>
    /\ Answered(r, "login") /\ PassesLoginSchema(reqs[r].body) /\ NoFault(reqs'[r]) =>
           \A u \in DOMAIN users :
             users[u].email = reqs[r].body.email /\ UsedBy(u) # {} =>
               reqs'[r].res.status = IF reqs[r].body.password = LastChosen(u) THEN 200 ELSE 401

\* C5: with requests one at a time, after recoverPassword has issued raw
\* token r to an existing user, resetPassword(r, newPw) inside the validity
\* window answers 200 with a fresh bearer token; afterwards login with newPw
\* answers 200 and login with another password 401; a later resetPassword
\* presenting r again answers 400 'Token invalido o expirado' and changes
\* nothing.
C5_ResetRoundTrip == [][RoundTripStep]_vars

\* a reset token that had been used was presented again and refused
C5_Witness ==
  \E r \in ReqIds :
    /\ Done(r)
    /\ reqs[r].route = "resetPassword"
    /\ PassesNewPasswordSchema(reqs[r].body)
    /\ reqs[r].body.token \in DOMAIN issued
    /\ issued[reqs[r].body.token].used
    /\ reqs[r].res.status = 400
    /\ ~reqs[r].faulted

ExpiryStep ==
  \A r \in ReqIds :
    Answered(r, "resetPassword") /\ PassesNewPasswordSchema(reqs[r].body)
      /\ NoFault(reqs'[r]) /\ Unspent(reqs[r].body.token) =>
        LET raw == reqs[r].body.token
            u == issued[raw].user
        IN IF now >= issued[raw].at + ResetWindowMs
             THEN /\ reqs'[r].res =
                       Resp(400, [success |-> FALSE, message |-> "Token invalido o expirado"])
                  /\ users[u].resetPasswordToken = Sha256(raw)
                  /\ users'[u] = users[u]
             ELSE /\ reqs'[r].res.status = 200
                  /\ users'[u].password = BcryptHash(reqs[r].body.password)

\* C6: a resetPassword request presenting a reset token issued at time t
\* at a time t' >= t + 1 hour answers 400 'Token invalido o expirado'
\* although the hash matches the stored one, and leaves the password, the
\* stored hash and the expiry as they are; a request at t' < t + 1 hour,
\* with no recoverPassword or reset for the user in between, succeeds.
C6_ResetWindow == [][ExpiryStep]_vars

\* a token was refused exactly one hour after its issue
C6_Witness ==
  \E r \in ReqIds :
    /\ Done(r)
    /\ reqs[r].route = "resetPassword"
    /\ PassesNewPasswordSchema(reqs[r].body)
    /\ Unspent(reqs[r].body.token)
    /\ reqs[r].sent = issued[reqs[r].body.token].at + ResetWindowMs
    /\ reqs[r].res.status = 400
    /\ ~reqs[r].faulted

\* slot 1 holds a signup answered 201 and slot 2 a request that presented
\* the token of that answer before its expiry and has left verifyToken
PresentedSignupToken ==
  /\ Done(1)
  /\ reqs[1].route = "signup"
  /\ reqs[1].res.status = 201
  /\ Started(2)
  /\ HeaderToken(reqs[2].headers) = reqs[1].res.body.token
  /\ reqs[2].sent \div 1000 < (reqs[1].sent \div 1000) + TokenLifetimeS
  /\ PastAuth(reqs[2])

SignupTokenOk ==
  PresentedSignupToken =>
    LET id == reqs[1].res.body.userId
    IN /\ ~RejectedByAuth(reqs[2])
       /\ reqs[2].user # Undefined
       /\ reqs[2].user.userId = id
       /\ id = nextUserId - 1
       /\ id \in DOMAIN users
       /\ users[id].email = reqs[1].body.email
       /\ reqs[2].user.email = users[id].email

\* C7: for every signup answered 201, verifyToken given the returned token
\* before its 24-hour expiry accepts it and sets req.user.userId to the id
\* of the record the signup created and req.user.email to its stored email.
C7_SignupTokenVerifies == SignupTokenOk

\* the token of a signup was presented at a later instant, before its
\* expiry, and the handler behind requireAuth has run
C7_Witness ==
  /\ PresentedSignupToken
  /\ Done(2)
  /\ "handler" \in Range(reqs[2].ran)
  /\ reqs[2].sent > reqs[1].sent

\* the signup's body passes signupSchema
PassesSignupSchema(body) ==
  /\ Has(body, "firstName") /\ body.firstName # ""
  /\ Has(body, "lastName") /\ body.lastName # ""
  /\ Has(body, "email") /\ body.email \in Emails
  /\ Has(body, "password") /\ Len(body.password) >= MinPasswordLen
  /\ Has(body, "age") => body.age >= 0

\* C8: a signup whose email is that of a stored user is answered 409 'This
\* email is already registered.' and adds no record, in every interleaving
\* of concurrent signups for the same email: a signup that is not answered
\* 201 is answered 409.
C8_DuplicateSignupConflicts ==
  \A r \in ReqIds :
    Done(r) /\ reqs[r].route = "signup" /\ PassesSignupSchema(reqs[r].body)
      /\ Has(reqs[r].body, "age") /\ NoFault(reqs[r]) /\ reqs[r].res.status # 201 =>
        reqs[r].res = Resp(409, [message |-> "This email is already registered."])

\* C9: a signup with non-empty names, a well-formed email no user has and a
\* password of at least 6 characters is answered 201 with a token and
\* creates the record, whether or not age is supplied.
C9_SignupWithoutAge ==
  \A r \in ReqIds :
    Done(r) /\ reqs[r].route = "signup" /\ PassesSignupSchema(reqs[r].body)
      /\ NoFault(reqs[r]) /\ reqs[r].res.status # 409 =>
        /\ reqs[r].res.status = 201
        /\ Has(reqs[r].res.body, "token")
        /\ FindByEmail(reqs[r].body.email) # {}

\* C10: POST /auth/recover-password answers 200 with the generic message
\* for every request, and 500 only when the store fails, never because of
\* the content of the body.
C10_RecoverAlways200 ==
  \A r \in ReqIds :
    Done(r) /\ reqs[r].route = "recoverPassword" /\ NoFault(reqs[r]) =>
      reqs[r].res =
        Resp(200, [success |-> TRUE,
                   message |-> "Si existe una cuenta con este email, recibiras un correo con las instrucciones."])

\* the routes whose body is validated against a schema
ValidatedRoutes ==
  {"signup", "login", "resetPassword", "updateProfile", "changePassword",
   "createTask", "updateTask"}

\* the body of the request fails the schema of its route
FailsSchema(q) ==
  CASE q.route = "signup" -> signupSchema(q.body) # {}
    [] q.route = "login" -> loginSchema(q.body) # {}
    [] q.route = "resetPassword" -> newPasswordSchema(q.body) # {}
    [] q.route = "updateProfile" -> updateProfileSchema(q.body) # {}
    [] q.route = "changePassword" -> changePasswordSchema(q.body) # {}
    [] q.route = "createTask" -> createTaskSchema(q.body) # <<>>
    [] q.route = "updateTask" -> updateTaskSchema(q.body) # <<>>
    [] OTHER -> FALSE

\* C11: on signup, login, reset-password, PUT /users/me, PUT
\* /users/me/password, POST /tasks and PUT /tasks/:id, a request whose body
\* fails the schema of the endpoint is answered 400, with a body that holds
\* no token, and no record, file or reset token has been created for it.
C11_InvalidBodyGets400 ==
  \A r \in ReqIds :
    Done(r) /\ reqs[r].route \in ValidatedRoutes /\ FailsSchema(reqs[r]) =>
      /\ reqs[r].res.status = 400
      /\ ~Has(reqs[r].res.body, "token")

\* the text of the underlying error occurs in the message
Contains(s, t) ==
  \E i \in 1..(Len(s) - Len(t) + 1) : SubSeq(s, i, i + Len(t) - 1) = t

\* C12: the message of a response sent after a store or transport fault is
\* a fixed string: the text of the underlying error (error.message) does
\* not occur in it.
C12_FaultMessagesGeneric ==
  \A r \in ReqIds :
    Done(r) /\ reqs[r].faulted => ~Contains(reqs[r].res.body.message, FaultMessage)

\* a step of request r, made on a /users/me route with the token of a user
\* whose account had been deleted when the request arrived
StepOfDeleted(r) ==
  /\ InFlight(r)
  /\ reqs[r].route \in UserRoutes
  /\ Caller(reqs[r]) \in deleted
  /\ reqs'[r] # reqs[r]

\* the request reaches the handler's lookup of the caller's record: its body
\* passes the schema of the route, the email it asks for belongs to no other
\* user, and an upload carries an image of an accepted type
ReachesLookup(q) ==
  CASE q.route = "updateProfile" ->
         updateProfileSchema(q.body) = {} /\ FindByEmail(q.body.email) \ {Caller(q)} = {}
    [] q.route = "changePassword" -> changePasswordSchema(q.body) = {}
    [] q.route = "uploadAvatar" -> Has(q.body, "file") /\ q.body.file \in AllowedMimes
    [] OTHER -> TRUE

AfterDeletionStrict ==
  \A r \in ReqIds :
    StepOfDeleted(r) =>
      /\ users' = users
      /\ reqs'[r].pc = "done" /\ ~reqs'[r].faulted =>
           /\ ~RejectedByAuth(reqs'[r])
           /\ reqs'[r].res = Resp(404, UserNotFound)

AfterDeletion ==
  \A r \in ReqIds :
    StepOfDeleted(r) =>
      /\ users' = users
      /\ reqs'[r].pc = "done" => ~RejectedByAuth(reqs'[r])
      /\ reqs'[r].pc = "done" /\ ~reqs'[r].faulted /\ ReachesLookup(reqs[r]) =>
           reqs'[r].res = Resp(404, UserNotFound)

ExpectedStatus(body) == IF Has(body, "status") THEN body.status ELSE "Por hacer"

CreateStep ==
  \A r \in ReqIds :
    InFlight(r) /\ reqs[r].route = "createTask" /\ reqs'[r] # reqs[r] =>
      LET q == reqs[r]
          res == reqs'[r].res
      IN /\ \A t \in DOMAIN tasks' \ DOMAIN tasks :
              /\ tasks'[t].user = Caller(q)
              /\ tasks'[t].status = ExpectedStatus(q.body)
         /\ reqs'[r].pc = "done" /\ res.status = 201 =>
              /\ res.body.task # Null
              /\ res.body.task.user # Null
              /\ res.body.task.user.id = Caller(q)
              /\ res.body.task.status = ExpectedStatus(q.body)
              /\ res.body.task.id \in DOMAIN tasks'
              /\ tasks'[res.body.task.id].user = Caller(q)
              /\ tasks'[res.body.task.id].status = ExpectedStatus(q.body)

DigitValue(c) == CHOOSE n \in 0..9 : <<"0", "1", "2", "3", "4", "5", "6", "7", "8", "9">>[n + 1] = c

\* exactly two hour digits 00..23, a colon and two minute digits 00..59
StrictHHMM(s) ==
  /\ Len(s) = 5
  /\ s[3] = ":"
  /\ \A i \in {1, 2, 4, 5} : s[i] \in Digits
  /\ 10 * DigitValue(s[1]) + DigitValue(s[2]) <= 23
  /\ 10 * DigitValue(s[4]) + DigitValue(s[5]) <= 59

TimeAcceptable(body) == ~Has(body, "time") \/ body.time = <<>> \/ StrictHHMM(body.time)

\* C15: createTask and updateTask accept a time value if and only if it is
\* absent, null, empty or strict HH:MM (two hour digits 00..23, a colon,
\* two minute digits 00..59); any other value is answered 400.
C15_TimeStrictHHMM ==
  \A r \in ReqIds :
    Done(r) /\ reqs[r].route \in {"createTask", "updateTask"} /\ ~reqs[r].faulted =>
      (reqs[r].res.status = 400 <=> ~TimeAcceptable(reqs[r].body))

\* the email updateProfile would store is that of another user
EmailTaken(q) ==
  \E u \in DOMAIN users \ {Caller(q)} : users[u].email = ToLowerCase(q.body.email)

\* C16: updateProfile answers 409, never 200 or 500, and changes no record
\* whenever the email it would store for the caller (the requested email
\* lower-cased and trimmed) already belongs to a different user.
C16_TakenEmailConflicts ==
  \A r \in ReqIds :
    Done(r) /\ reqs[r].route = "updateProfile" /\ updateProfileSchema(reqs[r].body) = {}
      /\ ~reqs[r].faulted /\ EmailTaken(reqs[r]) =>
        reqs[r].res.status = 409

ChangePasswordStep ==
  \A r \in ReqIds :
    /\ InFlight(r) /\ reqs[r].route = "changePassword" /\ reqs'[r] # reqs[r]
         /\ Caller(reqs[r]) \in DOMAIN users =>
           LET q == reqs[r]
               u == Caller(q)
               answered == reqs'[r].pc = "done" /\ ~reqs'[r].faulted
                           /\ ~RejectedByAuth(reqs'[r])
           IN IF changePasswordSchema(q.body) # {}
                   \/ users[u].password # BcryptHash(q.body.currentPassword)
                THEN /\ users' = users
                     /\ answered => reqs'[r].res.status = 400
                ELSE /\ answered =>
                          /\ reqs'[r].res.status = 200
                          /\ users'[u].password = BcryptHash(q.body.newPassword)
                     /\ \A v \in DOMAIN users \ {u} : users'[v] = users[v]
    /\ Answered(r, "login") /\ ~reqs'[r].faulted =>
         (reqs'[r].res.status = 200
            <=> Matches(reqs[r].body.email, reqs[r].body.password))

\* C17: changePassword with a currentPassword that does not match the
\* caller's stored hash, or with confirmPassword different from newPassword,
\* is answered 400 and leaves every stored password as it is; with a
\* matching currentPassword and a body that passes the schema it is
\* answered 200 and stores the hash of newPassword; login succeeds exactly
\* with the password whose hash is stored, so with the old one after a 400
\* and with newPassword, and no other, after a 200.
C17_ChangePassword == [][ChangePasswordStep]_vars

\* Ann changed her password and then logged in with the new one
C17_Witness ==
  \E r \in ReqIds :
    /\ Done(r)
    /\ reqs[r].route = "login"
    /\ reqs[r].res.status = 200
    /\ reqs[r].body.email = Registered[1].email
    /\ Registered[1].password # BcryptHash(reqs[r].body.password)

\* the positions of startup after the connection string is read
PastConnectDB == proc.pc # "connectDB"

\* the positions of startup after the secret is checked
PastCheckEnv == proc.pc \notin {"connectDB", "checkEnv"}

StartupOk ==
  /\ ~proc.env.MONGODB_URI /\ PastConnectDB => proc.pc = "exited" /\ proc.code # 0
  /\ ~proc.env.JWT_SECRET /\ PastCheckEnv => proc.pc = "exited" /\ proc.code # 0
  /\ ~proc.env.MONGODB_URI \/ ~proc.env.JWT_SECRET =>
       /\ proc.pc # "serving"
       /\ \A r \in ReqIds : reqs[r].pc = "idle"

\* C18: if JWT_SECRET or MONGODB_URI is absent at startup the process exits
\* with a non-zero code before it listens: it handles no request, so no
\* token is signed or verified in a process whose secret is absent.
C18_StartupFaultsFatal == StartupOk

\* started with a connection string and without a secret, the process has exited
C18_Witness ==
  /\ ~proc.env.JWT_SECRET
  /\ proc.env.MONGODB_URI
  /\ proc.pc = "exited"
  /\ proc.code = 1

\* slot 1 holds a signup answered 201 and slot 2 a login of the same user
\* answered 200
SignedUpThenLoggedIn ==
  /\ Done(1) /\ reqs[1].route = "signup" /\ reqs[1].res.status = 201
  /\ Done(2) /\ reqs[2].route = "login" /\ reqs[2].res.status = 200
  /\ reqs[2].res.body.user.id = reqs[1].res.body.userId

\* C19: for the same user, the bearer token login returns differs from the
\* token the user's signup returned, while both carry the same userId and
\* email claims, however short the time between the two requests.
C19_LoginTokenDiffers ==
  SignedUpThenLoggedIn =>
    LET t1 == reqs[1].res.body.token
        t2 == reqs[2].res.body.token
    IN /\ t1 # t2
       /\ t1.userId = t2.userId
       /\ t1.email = t2.email

\* C20: in every reachable state of every user record, however the signup,
\* recoverPassword, resetPassword, changePassword, updateProfile and
\* uploadAvatar requests interleave, resetPasswordToken and
\* resetPasswordExpires are both set or both absent.
C20_ResetFieldsPaired ==
  \A u \in DOMAIN users :
    Has(users[u], "resetPasswordToken") <=> Has(users[u], "resetPasswordExpires")

\* a reset completed while another request for the account was in flight,
\* and cleared the reset fields a recovery had set
C20_Witness ==
  \E r \in ReqIds, o \in ReqIds :
    /\ Done(r)
    /\ reqs[r].route = "resetPassword"
    /\ reqs[r].res.status = 200
    /\ reqs[o].pc = "handler2"
    /\ reqs[o].route = "recoverPassword"
    /\ \E u \in DOMAIN users : ~Has(users[u], "resetPasswordToken")


-----------------------------------------------------------------------------
(* C21: a task's owner never changes after creation: no step of createTask, *)
(* updateTask or deleteTask, whatever the caller and the body (an update    *)
(* body with a user field included), changes the user field of a task that  *)
(* is stored before and after the step. Task ids are never reused, so the   *)
(* owner stays the creator until the task is deleted.                       *)

C21_TaskOwnerImmutable ==
  [][\A t \in DOMAIN tasks \cap DOMAIN tasks' : tasks'[t].user = tasks[t].user]_vars


\* C22: in every reachable state, after any sequence of signup, updateProfile,
\* federated login and deleteAccount requests, no two user records have
\* emails that are equal after lower-casing.
C22_EmailsUniqueIgnoringCase ==
  \A u \in DOMAIN users, v \in DOMAIN users :
    ToLowerCase(users[u].email) = ToLowerCase(users[v].email) => u = v

\* C23: in every reachable state every user record's password field holds the
\* output of bcrypt, never a plaintext string, whichever of signup,
\* resetPassword, changePassword and the federated login wrote the record.
C23_PasswordsHashed ==
  \A u \in DOMAIN users : users[u].password.alg = "bcrypt"


\* the raw tokens recoverPassword has issued to a user
IssuedTo(u) == {raw \in DOMAIN issued : issued[raw].user = u}

\* the token of the recovery whose save landed last
LastIssued(u) == CHOOSE raw \in IssuedTo(u) : \A other \in IssuedTo(u) : other <= raw

\* the user's recoveries have completed and none of their tokens has been used
RecoveredTwice(u) ==
  /\ Cardinality(IssuedTo(u)) >= 2
  /\ \A raw \in IssuedTo(u) : ~issued[raw].used
  /\ \A r \in ReqIds : InFlight(r) => reqs[r].route # "recoverPassword"

LastWriteWinsStep ==
  \A r \in ReqIds :
    Answered(r, "resetPassword") /\ PassesNewPasswordSchema(reqs[r].body)
      /\ NoFault(reqs'[r]) /\ reqs[r].body.token \in DOMAIN issued =>
        LET raw == reqs[r].body.token
            u == issued[raw].user
        IN RecoveredTwice(u) /\ InWindow(LastIssued(u)) =>
             IF raw = LastIssued(u)
               THEN /\ reqs'[r].res.status = 200
                    /\ users'[u].password = BcryptHash(reqs[r].body.password)
               ELSE /\ reqs'[r].res =
                         Resp(400, [success |-> FALSE, message |-> "Token invalido o expirado"])
                    /\ UNCHANGED users

\* C24: after two recoverPassword requests for the same user have both
\* completed, in every interleaving of their store reads and writes, exactly
\* one of the two raw tokens is exchangeable by resetPassword, the one whose
\* save landed last; resetPassword with the other responds 400.
C24_LastRecoverWins == [][LastWriteWinsStep]_vars

\* two recoveries for one user were saved at the same instant, and the token
\* of the first to write was then refused
C24_Witness ==
  \E r \in ReqIds, u \in DOMAIN users :
    /\ Done(r)
    /\ reqs[r].route = "resetPassword"
    /\ reqs[r].res.status = 400
    /\ ~reqs[r].faulted
    /\ Cardinality(IssuedTo(u)) >= 2
    /\ reqs[r].body.token \in IssuedTo(u) \ {LastIssued(u)}
    /\ \A raw \in IssuedTo(u) : ~issued[raw].used /\ issued[raw].at = issued[LastIssued(u)].at
    /\ now < issued[LastIssued(u)].at + ResetWindowMs


SingleUseStep ==
  \A r \in ReqIds :
    Answered(r, "resetPassword") /\ reqs'[r].res.status = 200
      /\ reqs[r].body.token \in DOMAIN issued =>
        ~issued[reqs[r].body.token].used

\* C25: for each issued reset token at most one resetPassword request ever
\* succeeds (200), in every interleaving of concurrent resetPassword requests
\* that present the same token, the lookup and the save being separate store
\* operations of each request: a request answered 200 presents a token with
\* which no earlier request was answered 200.
C25_ResetTokenSingleUse == [][SingleUseStep]_vars


\* no user has exactly this email
EmailOfNoUser(email) == \A u \in DOMAIN users : users[u].email # email

\* no user record holds this hash with an expiry still ahead
NoUnexpiredMatch(hash) ==
  \A u \in DOMAIN users :
    ~(/\ Has(users[u], "resetPasswordToken")
      /\ users[u].resetPasswordToken = hash
      /\ Has(users[u], "resetPasswordExpires")
      /\ users[u].resetPasswordExpires > now)

\* the step is one of request r
StepOf(r) == InFlight(r) /\ reqs'[r] # reqs[r]

\* the response, if the step sends one, carries no bearer token
NoTokenSent(r) == reqs'[r].pc = "done" => ~Has(reqs'[r].res.body, "token")

ResetFrameOk ==
  \A r \in ReqIds :
    /\ StepOf(r) /\ reqs[r].route = "recoverPassword" /\ Has(reqs[r].body, "email")
         /\ EmailOfNoUser(reqs[r].body.email) =>
           /\ UNCHANGED <<users, tasks>>
           /\ reqs'[r].pc = "done"
           /\ NoTokenSent(r)
    /\ StepOf(r) /\ reqs[r].route = "resetPassword" /\ Has(reqs[r].body, "token")
         /\ reqs[r].pc = "handler" /\ NoUnexpiredMatch(Sha256(reqs[r].body.token)) =>
           /\ UNCHANGED <<users, tasks>>
           /\ reqs'[r].pc = "done"
           /\ reqs'[r].res.status # 200
           /\ NoTokenSent(r)
    /\ Answered(r, "recoverPassword") /\ reqs[r].pc = "handler2" /\ NoFault(reqs'[r]) =>
           LET id == reqs[r].loc.id
               fields == {"resetPasswordToken", "resetPasswordExpires"}
           IN /\ reqs'[r].res.status = 200
              /\ DOMAIN users' = DOMAIN users
              /\ \A u \in DOMAIN users \ {id} : users'[u] = users[u]
              /\ Without(users'[id], fields) = Without(users[id], fields)
              /\ users'[id].resetPasswordToken # Sha256(UnissuedRaw)
              /\ Has(users[id], "resetPasswordToken") =>
                   users'[id].resetPasswordToken # users[id].resetPasswordToken
              /\ UNCHANGED tasks
              /\ NoTokenSent(r)

\* C26: the failure paths of the reset flow change nothing: recoverPassword
\* for an email that belongs to no user, and resetPassword with a token whose
\* hash matches no stored unexpired hash, leave every user record (password,
\* reset hash, expiry) and every task unchanged and issue no bearer token; a
\* successful recoverPassword changes only the reset hash and expiry of the
\* matched user.
C26_ResetFailuresChangeNothing == [][ResetFrameOk]_vars

\* with a task stored, a reset presenting a token whose hash is still on a
\* record but has expired was refused
C26_Witness ==
  /\ tasks # <<>>
  /\ \E u \in DOMAIN users :
       /\ Has(users[u], "resetPasswordToken")
       /\ users[u].resetPasswordExpires <= now
       /\ \E r \in ReqIds :
            /\ Done(r)
            /\ reqs[r].route = "resetPassword"
            /\ Has(reqs[r].body, "token")
            /\ users[u].resetPasswordToken = Sha256(reqs[r].body.token)
            /\ reqs[r].res.status = 400
            /\ ~reqs[r].faulted


DeleteAccountFrame ==
  \A r \in ReqIds :
    StepOf(r) /\ reqs[r].route = "deleteAccount" /\ reqs[r].pc = "handler" =>
      LET caller == reqs[r].user.userId
      IN /\ UNCHANGED tasks
         /\ \A u \in DOMAIN users \ {caller} : u \in DOMAIN users' /\ users'[u] = users[u]
         /\ DOMAIN users' \subseteq DOMAIN users
         /\ reqs'[r].res.status = 200 <=> caller \in DOMAIN users /\ caller \notin DOMAIN users'
         /\ reqs'[r].res.status # 200 => UNCHANGED users

CreateForExistingUser ==
  \A r \in ReqIds :
    StepOf(r) /\ reqs[r].route = "createTask" /\ reqs[r].pc \in {"handler", "handler2"}
      /\ reqs[r].user.userId \notin DOMAIN users =>
        /\ UNCHANGED tasks
        /\ reqs'[r].pc = "done" => reqs'[r].res.status # 201

\* C29: createTask never stores a task whose owner is not an existing user
\* record: a createTask request bearing the still-unexpired token of an
\* account that has been deleted creates no task and does not respond 201.
C29_NoTaskForDeletedUser == [][CreateForExistingUser]_vars


\* C30: after every completed uploadAvatar request, whether it ended with 200
\* or, after a fault at the store update, with 500, the caller's non-null
\* avatar reference names a file that exists in the avatars directory.
C30_AvatarFileExists ==
  \A r \in ReqIds :
    Done(r) /\ reqs[r].route = "uploadAvatar" /\ reqs[r].user # Undefined
      /\ reqs[r].res.status \in {200, 500} =>
        LET caller == reqs[r].user.userId
        IN caller \in DOMAIN users /\ Has(users[caller], "avatar") =>
             users[caller].avatar \in files


\* the reset fields of a document, absent ones included
ResetFields(doc) ==
  [f \in {"resetPasswordToken", "resetPasswordExpires"} \cap DOMAIN doc |-> doc[f]]

PendingResetKept ==
  \A r \in ReqIds :
    /\ StepOf(r) /\ reqs[r].route \in {"changePassword", "updateProfile"} =>
         /\ DOMAIN users' = DOMAIN users
         /\ \A u \in DOMAIN users : ResetFields(users'[u]) = ResetFields(users[u])
    /\ Answered(r, "resetPassword") /\ PassesNewPasswordSchema(reqs[r].body)
         /\ NoFault(reqs'[r]) /\ Unspent(reqs[r].body.token) /\ InWindow(reqs[r].body.token) =>
           LET u == issued[reqs[r].body.token].user
           IN /\ reqs'[r].res.status = 200
              /\ users'[u].password = BcryptHash(reqs[r].body.password)

\* C28: changePassword and updateProfile never modify resetPasswordToken or
\* resetPasswordExpires: a reset token that is pending when changePassword
\* succeeds stays stored, and resetPassword presenting it before its expiry
\* still succeeds and replaces the password just set.
C28_PendingResetSurvives == [][PendingResetKept]_vars

\* a token issued before a successful changePassword was exchanged after it:
\* the password is the one the reset chose, not the one changePassword set
C28_Witness ==
  /\ Done(1) /\ reqs[1].route = "resetPassword" /\ reqs[1].res.status = 200
  /\ Done(2) /\ reqs[2].route = "changePassword" /\ reqs[2].res.status = 200
  /\ issued[reqs[1].body.token].at < reqs[2].sent
  /\ reqs[2].sent <= reqs[1].sent
  /\ reqs[1].body.password # reqs[2].body.newPassword
  /\ users[1].password = BcryptHash(reqs[1].body.password)

====
